---- MODULE Spec2Model ----
(***************************************************************************)
(* Model of e18e/action-dependency-diff: the multi-dialect lockfile        *)
(* parsers (src/src/lockfile.ts), the line locator and the diff engine.    *)
(* Texts are TLA+ strings; the JavaScript string and regular-expression    *)
(* primitives the code uses are defined below with 0-based indices, as in  *)
(* the source.  A value that several later steps read is handed on as an   *)
(* operator parameter, so every step of the source is one definition.      *)
(***************************************************************************)
EXTENDS Integers, Sequences, FiniteSets, TLC

VARIABLES
    pc,                  \* the set of calls made so far
    lockfilePath,        \* the lockfile name handed to parseLockfile / findLockfileLine
    basePackageLock,     \* text of the lockfile at the base revision
    currentPackageLock,  \* text of the lockfile at the current revision
    baseDeps,            \* outcome of parseLockfile(lockfilePath, basePackageLock)
    currentDeps,         \* outcome of parseLockfile(lockfilePath, currentPackageLock)
    changes,             \* outcome of diffDependencySets(baseDeps, currentDeps)
    query,               \* the (name, version) pair handed to findLockfileLine
    located,             \* outcome of findLockfileLine on currentPackageLock
    call,                \* the function of src/ under way, with its arguments
    locals,              \* the local variables of that call
    returned,            \* what that call returned, once it has
    messages,            \* the `messages` array the checks append to
    heap,                \* the Set objects allocated so far, by reference
    comments,            \* the comments of the pull request, as GitHub holds them
    metaCache,           \* metaCache of npm.ts: the entries set so far
    requests             \* the requests sent out so far: to GitHub, to the registry

lockVars == <<pc, lockfilePath, basePackageLock, currentPackageLock, baseDeps,
              currentDeps, changes, query, located>>

callVars == <<call, locals, returned, messages, heap>>

worldVars == <<comments, metaCache, requests>>

vars == <<lockVars, callVars, worldVars>>

(***************************************************************************)
(* JavaScript string primitives                                            *)
(***************************************************************************)

Least(S, none) == IF S = {} THEN none ELSE CHOOSE i \in S : \A j \in S : i <= j

Greatest(S, none) == IF S = {} THEN none ELSE CHOOSE i \in S : \A j \in S : i >= j

\* s[i], 0-based; "" when i is out of range
CharAt(s, i) == IF i >= 0 /\ i < Len(s) THEN SubSeq(s, i + 1, i + 1) ELSE ""

\* s.slice(from, to) for 0 <= from, to
Slice(s, from, to) ==
    IF from >= to \/ from >= Len(s) THEN ""
    ELSE SubSeq(s, from + 1, IF to < Len(s) THEN to ELSE Len(s))

\* s.slice(from)
SliceFrom(s, from) == Slice(s, from, Len(s))

StartsWith(s, p) == Len(p) <= Len(s) /\ SubSeq(s, 1, Len(p)) = p

EndsWith(s, p) == Len(p) <= Len(s) /\ SubSeq(s, Len(s) - Len(p) + 1, Len(s)) = p

\* the indices >= from at which p occurs in s
Occurrences(s, p, from) == {i \in from..(Len(s) - Len(p)) : SubSeq(s, i + 1, i + Len(p)) = p}

\* s.indexOf(p, from), s.indexOf(p), s.lastIndexOf(p): -1 when p does not occur
IndexOfFrom(s, p, from) == Least(Occurrences(s, p, from), -1)

IndexOf(s, p) == IndexOfFrom(s, p, 0)

LastIndexOf(s, p) == Greatest(Occurrences(s, p, 0), -1)

\* s.includes(p)
Includes(s, p) == Occurrences(s, p, 0) # {}

\* the class \s of the regular expressions, and what String.prototype.trim strips
IsSpace(c) == c \in {" ", "\t", "\n", "\r"}

\* a text "." of a regular expression matches throughout: no line terminator
NoLineTerminator(s) == \A i \in 0..(Len(s) - 1) : CharAt(s, i) \notin {"\n", "\r"}

\* index of the first non-whitespace character at or after from; Len(s) if none
RECURSIVE SkipSpace(_, _)
SkipSpace(s, from) ==
    IF from >= Len(s) THEN Len(s)
    ELSE IF IsSpace(CharAt(s, from)) THEN SkipSpace(s, from + 1)
    ELSE from

TrimStart(s) == SliceFrom(s, SkipSpace(s, 0))

RECURSIVE TrimEnd(_)
TrimEnd(s) ==
    IF s # "" /\ IsSpace(CharAt(s, Len(s) - 1)) THEN TrimEnd(Slice(s, 0, Len(s) - 1)) ELSE s

Trim(s) == TrimStart(TrimEnd(s))

\* s.split(sep) for a non-empty string separator
RECURSIVE Split(_, _)
Split(s, sep) ==
    LET i == IndexOf(s, sep)
    IN  IF i < 0 THEN <<s>>
        ELSE <<Slice(s, 0, i)>> \o Split(SliceFrom(s, i + Len(sep)), sep)

\* s.split(/\r?\n/)
RECURSIVE SplitLines(_)
SplitLines(s) ==
    LET i == IndexOf(s, "\n")
    IN  IF i < 0 THEN <<s>>
        ELSE <<Slice(s, 0, IF i > 0 /\ CharAt(s, i - 1) = "\r" THEN i - 1 ELSE i)>>
             \o SplitLines(SliceFrom(s, i + 1))

\* parts.join(sep)
RECURSIVE Join(_, _)
Join(parts, sep) ==
    IF Len(parts) = 0 THEN ""
    ELSE IF Len(parts) = 1 THEN parts[1]
    ELSE parts[1] \o sep \o Join(Tail(parts), sep)

\* s.replace(/:$/, '') and s.replace(/\/$/, ''): drop one trailing c
DropTrailing(s, c) == IF EndsWith(s, c) THEN Slice(s, 0, Len(s) - Len(c)) ELSE s

\* s.replace(/^"|"$/g, '') (q the quote): a leading q and a trailing q are removed,
\* each on its own; a lone q is matched once, by the first alternative
StripQuoteChars(s, q) == DropTrailing(IF StartsWith(s, q) THEN SliceFrom(s, 1) ELSE s, q)

\* arr.filter(Boolean) on an array of strings
RECURSIVE FilterNonEmpty(_)
FilterNonEmpty(parts) ==
    IF Len(parts) = 0 THEN <<>>
    ELSE (IF parts[1] = "" THEN <<>> ELSE <<parts[1]>>) \o FilterNonEmpty(Tail(parts))

(***************************************************************************)
(* JavaScript values, as JSON.parse returns them: a tag t, the text s of a *)
(* string, number or boolean, and the members kids of an object or array   *)
(* as <<key, value>> pairs in insertion order (array keys are the indices).*)
(***************************************************************************)

JUndefined == [t |-> "undefined", s |-> "", kids |-> <<>>]
JNull == [t |-> "null", s |-> "", kids |-> <<>>]
JBool(b) == [t |-> "bool", s |-> IF b THEN "true" ELSE "false", kids |-> <<>>]
JNum(digits) == [t |-> "num", s |-> digits, kids |-> <<>>]
JStr(str) == [t |-> "str", s |-> str, kids |-> <<>>]
JObj(props) == [t |-> "obj", s |-> "", kids |-> props]

\* the decimal text of a small array index
IndexKey(i) == SubSeq("0123456789", i + 1, i + 1)

JArr(items) == [t |-> "arr", s |-> "", kids |-> [i \in 1..Len(items) |-> <<IndexKey(i - 1), items[i]>>]]

\* ToBoolean
Truthy(v) ==
    CASE v.t \in {"undefined", "null"} -> FALSE
      [] v.t = "bool" -> v.s = "true"
      [] v.t = "num" -> v.s # "0"
      [] v.t = "str" -> v.s # ""
      [] OTHER -> TRUE

\* v[key] for a value other than undefined and null (reading a property of
\* those throws a TypeError)
Get(v, key) ==
    LET hits == IF v.t \in {"obj", "arr"} THEN {i \in 1..Len(v.kids) : v.kids[i][1] = key}
                ELSE IF v.t = "str" THEN {i \in 1..Len(v.s) : IndexKey(i - 1) = key}
                ELSE {}
    IN  IF hits = {} THEN JUndefined
        ELSE IF v.t = "str" THEN JStr(CharAt(v.s, (CHOOSE i \in hits : TRUE) - 1))
        ELSE v.kids[CHOOSE i \in hits : TRUE][2]

\* a && a[key]
AndGet(v, key) == IF Truthy(v) THEN Get(v, key) ELSE v

\* Object.keys(v) for a value that can be read
Keys(v) ==
    IF v.t \in {"obj", "arr"} THEN [i \in 1..Len(v.kids) |-> v.kids[i][1]]
    ELSE IF v.t = "str" THEN [i \in 1..Len(v.s) |-> IndexKey(i - 1)]
    ELSE <<>>

\* JSON.stringify(v, null, 2): the text of a document, one member per line; ind
\* is the indentation of the value
RECURSIVE Stringify(_, _)
Stringify(v, ind) ==
    CASE v.t = "str" -> "\"" \o v.s \o "\""
      [] v.t \in {"num", "bool"} -> v.s
      [] v.t \in {"null", "undefined"} -> "null"
      [] v.t = "obj" /\ Len(v.kids) = 0 -> "{}"
      [] v.t = "arr" /\ Len(v.kids) = 0 -> "[]"
      [] OTHER ->
           (IF v.t = "obj" THEN "{" ELSE "[") \o "\n"
           \o Join([i \in 1..Len(v.kids) |->
                       ind \o "  "
                       \o (IF v.t = "obj" THEN "\"" \o v.kids[i][1] \o "\": " ELSE "")
                       \o Stringify(v.kids[i][2], ind \o "  ")], ",\n")
           \o "\n" \o ind \o (IF v.t = "obj" THEN "}" ELSE "]")

(***************************************************************************)
(* VersionsSet: Map<string, Set<string>>, a sequence of entries in         *)
(* insertion order with distinct names.  A call returns a map or throws.   *)
(***************************************************************************)

EmptyMap == <<>>

MapHas(map, name) == \E i \in 1..Len(map) : map[i].name = name

\* map.get(name) || new Set()
MapGetOrEmpty(map, name) ==
    IF MapHas(map, name)
    THEN map[CHOOSE i \in 1..Len(map) : map[i].name = name].versions
    ELSE {}

addVersion(map, name, version) ==
    IF MapHas(map, name)
    THEN [i \in 1..Len(map) |->
            IF map[i].name = name
            THEN [name |-> name, versions |-> map[i].versions \cup {version}]
            ELSE map[i]]
    ELSE Append(map, [name |-> name, versions |-> {version}])

Returned(map) == [threw |-> FALSE, map |-> map]
Threw == [threw |-> TRUE, map |-> EmptyMap]

(***************************************************************************)
(* JSON documents: the bounded set of documents a run can read.            *)
(***************************************************************************)

MaxEntries == 2    \* members of a `packages` object or array

\* all sequences of at most n elements of pool
RECURSIVE SeqsUpTo(_, _)
SeqsUpTo(pool, n) ==
    IF n = 0 THEN {<<>>}
    ELSE SeqsUpTo(pool, n - 1) \cup {Append(q, e) : q \in SeqsUpTo(pool, n - 1), e \in pool}

DistinctKeys(props) == \A i, j \in 1..Len(props) : i # j => props[i][1] # props[j][1]

\* members of the `packages` object of a package-lock.json
NpmEntryPool ==
    { <<"", JObj(<< <<"name", JStr("app")>>, <<"version", JStr("0.1.0")>> >>)>>,
      <<"node_modules/foo", JObj(<< <<"version", JStr("1.0.0")>> >>)>>,
      <<"node_modules/@s/bar", JObj(<< <<"version", JStr("2.0.0")>> >>)>>,
      <<"node_modules/@s/bar/node_modules/foo", JObj(<< <<"version", JStr("1.1.0")>> >>)>>,
      <<"node_modules/baz", JObj(<< <<"name", JStr("foo")>>, <<"version", JStr("2.0.0")>> >>)>>,
      <<"node_modules/lnk", JObj(<< <<"resolved", JStr("lib/lnk")>>, <<"link", JBool(TRUE)>> >>)>>,
      <<"lib/lnk", JObj(<< <<"version", JStr("1.0.0")>> >>)>>,
      <<"node_modules/nul", JNull>> }

NpmDocs ==
    { JObj(<< <<"lockfileVersion", JNum("3")>>, <<"packages", JObj(props)>> >>) :
        props \in {q \in SeqsUpTo(NpmEntryPool, MaxEntries) : DistinctKeys(q)} }

\* members of an object-shaped `packages` of a bun.lock
BunEntryPool ==
    { <<"foo@1.0.0", JObj(<< <<"version", JStr("1.0.0")>> >>)>>,
      <<"@s/bar@2.0.0", JObj(<< <<"version", JStr("2.0.0")>> >>)>>,
      <<"foo@npm:baz@1.1.0", JObj(<< <<"version", JStr("1.1.0")>> >>)>>,
      <<"@s/bar@npm:@t/qux@2.1.0", JObj(<< <<"version", JStr("2.1.0")>> >>)>>,
      <<"qux", JObj(<< <<"version", JStr("1.0.0")>> >>)>>,
      <<"baz@2.0.0", JObj(<< <<"name", JStr("foo")>>, <<"version", JStr("2.0.0")>> >>)>>,
      <<"nov@1.0.0", JObj(<< <<"resolved", JStr("lib/nov")>> >>)>> }

BunObjectDocs ==
    { JObj(<< <<"lockfileVersion", JNum("1")>>, <<"packages", JObj(props)>> >>) :
        props \in {q \in SeqsUpTo(BunEntryPool, MaxEntries) : DistinctKeys(q)} }

\* members of an array-shaped `packages` of a bun.lock
BunItemPool ==
    { JObj(<< <<"name", JStr("foo")>>, <<"version", JStr("1.0.0")>> >>),
      JObj(<< <<"name", JStr("@s/bar")>>, <<"version", JStr("2.0.0")>> >>),
      JObj(<< <<"name", JStr("foo")>>, <<"version", JStr("1.1.0")>> >>),
      JObj(<< <<"name", JStr("nov")>> >>),
      JObj(<< <<"version", JStr("3.0.0")>> >>),
      JNull }

BunArrayDocs ==
    { JObj(<< <<"lockfileVersion", JNum("1")>>, <<"packages", JArr(items)>> >>) :
        items \in SeqsUpTo(BunItemPool, MaxEntries) }

\* well-formed JSON of an unexpected shape
ShapeDocs ==
    { JNull, JNum("5"), JNum("0"), JStr("lock"), JBool(FALSE), JArr(<<>>), JObj(<<>>),
      JArr(<<JObj(<< <<"version", JStr("1.0.0")>> >>)>>),
      JObj(<< <<"packages", JNull>> >>),
      JObj(<< <<"packages", JNum("5")>> >>),
      JObj(<< <<"packages", JStr("ab")>> >>),
      JObj(<< <<"packages", JBool(TRUE)>> >>),
      JObj(<< <<"packages", JArr(<<JNull, JObj(<< <<"version", JStr("1.0.0")>> >>)>>)>> >>),
      JObj(<< <<"packages", JArr(<<JStr("foo@1.0.0"), JNum("5")>>)>> >>),
      JObj(<< <<"packages", JObj(<< <<"node_modules/foo", JStr("1.0.0")>>,
                                    <<"foo@1.0.0", JNum("5")>> >>)>> >>),
      JObj(<< <<"dependencies", JObj(<< <<"foo", JStr("1.0.0")>> >>)>> >>) }

\* the text of a document, and the documents with their texts
JsonText(d) == Stringify(d, "")

JsonTexts ==
    {<<JsonText(d), d>> : d \in NpmDocs \cup BunObjectDocs \cup BunArrayDocs \cup ShapeDocs}

\* JSON.parse of a text without white space around it: the document whose text
\* it is, or a SyntaxError when there is none
ParseText(text) ==
    LET hits == {p \in JsonTexts : p[1] = text}
    IN  IF hits = {} THEN [ok |-> FALSE, value |-> JUndefined]
        ELSE [ok |-> TRUE, value |-> (CHOOSE p \in hits : TRUE)[2]]

\* JSON.parse(content); white space around the document is allowed
JSONParse(content) == ParseText(Trim(content))

(***************************************************************************)
(* The dialect parsers of src/src/lockfile.ts.  An undefined string        *)
(* (no match, no name) is the empty string: both are falsy in the code.    *)
(***************************************************************************)

\* the first part instead of the last: what C8 rules out
NpmNameFromFirstPart(key) ==
    LET parts == FilterNonEmpty(Split(key, "node_modules/"))
    IN  IF Len(parts) > 0 THEN DropTrailing(parts[1], "/") ELSE ""

\* key.split('node_modules/').filter(Boolean), then
\* parts[parts.length - 1]?.replace(/\/$/, ''): "" when parts is empty
NpmNameFromKey(key) ==
    LET parts == FilterNonEmpty(Split(key, "node_modules/"))
    IN  IF Len(parts) > 0 THEN DropTrailing(parts[Len(parts)], "/") ELSE ""

\* one iteration of the loop of parseNpmLock
NpmLoopBody(key, entry, result) ==
    LET version == AndGet(entry, "version")
        name == IF Truthy(Get(entry, "name")) THEN Get(entry, "name").s
                ELSE NpmNameFromKey(key)
    IN  IF ~Truthy(version) THEN result
        ELSE IF key = "" THEN result
        ELSE IF name = "" THEN result
        ELSE addVersion(result, name, version.s)

RECURSIVE NpmLoop(_, _, _, _)
NpmLoop(packages, keys, k, result) ==
    IF k > Len(keys) THEN result
    ELSE NpmLoop(packages, keys, k + 1, NpmLoopBody(keys[k], Get(packages, keys[k]), result))

\* json.packages || {} and the loop; reading .packages of null throws
NpmFromJson(json) ==
    LET packages == IF Truthy(Get(json, "packages")) THEN Get(json, "packages")
                    ELSE JObj(<<>>)
    IN  IF json.t \in {"undefined", "null"} THEN Threw
        ELSE Returned(NpmLoop(packages, Keys(packages), 1, EmptyMap))

\* a parse error that is not caught: what C12 rules out
NpmFromParsedUncaught(parsed) == IF ~parsed.ok THEN Threw ELSE NpmFromJson(parsed.value)

\* the try block of parseNpmLock: a text that is not JSON yields the empty map
NpmFromParsed(parsed) == IF ~parsed.ok THEN Returned(EmptyMap) ELSE NpmFromJson(parsed.value)

parseNpmLock(content) == NpmFromParsed(JSONParse(content))

\* /^packages:\s*$/.test(line)
IsPackagesLine(line) == StartsWith(line, "packages:") /\ Trim(SliceFrom(line, 9)) = ""

\* any line that ends in a colon, indented or not: what C9 rules out
IsAnyKeyLine(line) == Len(line) >= 2 /\ EndsWith(line, ":")

\* /^\S.*:$/.test(line)
IsTopLevelKeyLine(line) ==
    /\ Len(line) >= 2
    /\ ~IsSpace(CharAt(line, 0))
    /\ EndsWith(line, ":")
    /\ NoLineTerminator(Slice(line, 1, Len(line) - 1))

\* m[1] of /^\s{2}(\S.*?):\s*$/.exec(line), "" when the line does not match; t is
\* the line without its trailing white space: the colon is its last character
PnpmKeyOfLine(line) ==
    LET t == TrimEnd(line)
    IN  IF /\ Len(t) >= 4
           /\ IsSpace(CharAt(line, 0)) /\ IsSpace(CharAt(line, 1))
           /\ ~IsSpace(CharAt(line, 2))
           /\ EndsWith(t, ":")
           /\ NoLineTerminator(Slice(t, 2, Len(t) - 1))
        THEN Slice(t, 2, Len(t) - 1)
        ELSE ""

\* the legacy leading slash is removed first, then the outer quotes when the key
\* starts and ends with the same quote
PnpmStripKey(m) ==
    LET key == IF StartsWith(m, "/") THEN SliceFrom(m, 1) ELSE m
    IN  IF \/ (StartsWith(key, "\"") /\ EndsWith(key, "\""))
           \/ (StartsWith(key, "'") /\ EndsWith(key, "'"))
        THEN Slice(key, 1, Len(key) - 1)
        ELSE key

\* the key without its peer suffix
PnpmCore(key) == IF Includes(key, "(") THEN Slice(key, 0, IndexOf(key, "(")) ELSE key

\* the split of core at its last '@', and the addVersion that follows
PnpmAddCore(core, result) ==
    LET at == LastIndexOf(core, "@")
    IN  IF at <= 0 THEN result
        ELSE IF Trim(SliceFrom(core, at + 1)) = "" THEN result
        ELSE addVersion(result, Slice(core, 0, at), Trim(SliceFrom(core, at + 1)))

\* what a line inside the block adds
PnpmEntry(line, result) ==
    IF PnpmKeyOfLine(line) = "" THEN result
    ELSE PnpmAddCore(PnpmCore(PnpmStripKey(PnpmKeyOfLine(line))), result)

\* the scan loop of parsePnpmLock; i is 0-based
RECURSIVE PnpmScan(_, _, _, _)
PnpmScan(lines, i, inPackages, result) ==
    IF i >= Len(lines) THEN result
    ELSE IF ~inPackages
    THEN PnpmScan(lines, i + 1, IsPackagesLine(lines[i + 1]), result)
    ELSE IF IsTopLevelKeyLine(lines[i + 1])
    THEN PnpmScan(lines, i + 1, IsPackagesLine(lines[i + 1]), result)
    ELSE PnpmScan(lines, i + 1, inPackages, PnpmEntry(lines[i + 1], result))

parsePnpmLock(content) == Returned(PnpmScan(SplitLines(content), 0, FALSE, EmptyMap))

\* spec.slice(0, at) for the last '@' of spec, undefined when at <= 0
yarnV1SpecifierToName(spec) ==
    IF LastIndexOf(spec, "@") <= 0 THEN "" ELSE Slice(spec, 0, LastIndexOf(spec, "@"))

\* the quotes are stripped; then s.indexOf('@', 1) for a scoped specifier,
\* s.indexOf('@') otherwise; undefined when at <= 0
yarnBerrySpecifierToName(spec) ==
    LET s == StripQuoteChars(StripQuoteChars(spec, "\""), "'")
        at == IF StartsWith(s, "@") THEN IndexOfFrom(s, "@", 1) ELSE IndexOf(s, "@")
    IN  IF at <= 0 THEN "" ELSE Slice(s, 0, at)

\* lines[i], "" when i is past the end (undefined is falsy, as "" is)
LineAt(lines, i) == IF i < Len(lines) THEN lines[i + 1] ELSE ""

\* vm[1] of /^\s{2}version\s+"([^"]+)"/.exec(line), "" when the line does not
\* match; p is the index of the opening quote, q that of the closing one
YarnV1VersionOfLine(line) ==
    LET p == SkipSpace(line, 9)
        q == IndexOfFrom(line, "\"", p + 1)
    IN  IF /\ IsSpace(CharAt(line, 0)) /\ IsSpace(CharAt(line, 1))
           /\ Slice(line, 2, 9) = "version"
           /\ p > 9
           /\ CharAt(line, p) = "\""
           /\ q > p + 1
        THEN Slice(line, p + 1, q)
        ELSE ""

\* a header loop that takes no line
YarnV1HeaderEndStay(lines, i) == i

\* the header loop of parseYarnV1Lock: the index after the header that starts at i
RECURSIVE YarnV1HeaderEnd(_, _)
YarnV1HeaderEnd(lines, i) ==
    IF LineAt(lines, i + 1) = "" \/ StartsWith(LineAt(lines, i + 1), "  ")
    THEN i + 1
    ELSE YarnV1HeaderEnd(lines, i + 1)

\* headerLines.join('\n').split(',\n') and the three maps: each specifier
\* trimmed, without the colon, without the quotes
YarnV1Specifiers(headerLines) ==
    LET pieces == Split(Join(headerLines, "\n"), ",\n")
    IN  [k \in 1..Len(pieces) |->
            StripQuoteChars(DropTrailing(Trim(pieces[k]), ":"), "\"")]

\* the body loop of parseYarnV1Lock: where it stops, and the version it holds then
RECURSIVE YarnV1Body(_, _, _)
YarnV1Body(lines, i, version) ==
    IF i >= Len(lines) THEN [i |-> i, version |-> version]
    ELSE IF \/ lines[i + 1] = ""
            \/ (~StartsWith(lines[i + 1], " ") /\ EndsWith(TrimEnd(lines[i + 1]), ":"))
    THEN [i |-> i, version |-> version]
    ELSE YarnV1Body(lines, i + 1,
                    IF YarnV1VersionOfLine(lines[i + 1]) # ""
                    THEN YarnV1VersionOfLine(lines[i + 1]) ELSE version)

\* for (const spec of specifiers) in parseYarnV1Lock
RECURSIVE YarnV1AddSpecifiers(_, _, _, _)
YarnV1AddSpecifiers(specifiers, k, version, result) ==
    IF k > Len(specifiers) THEN result
    ELSE YarnV1AddSpecifiers(specifiers, k + 1, version,
             IF yarnV1SpecifierToName(specifiers[k]) # ""
             THEN addVersion(result, yarnV1SpecifierToName(specifiers[k]), version)
             ELSE result)

\* the block whose header starts at i and ends before j, body the outcome of
\* its body loop: what it adds to result
YarnV1Block(lines, i, j, body, result) ==
    IF body.version = "" THEN result
    ELSE YarnV1AddSpecifiers(YarnV1Specifiers(SubSeq(lines, i + 1, j)), 1,
                             body.version, result)

\* the outer loop of parseYarnV1Lock
RECURSIVE YarnV1Scan(_, _, _)
YarnV1Scan(lines, i, result) ==
    IF i >= Len(lines) THEN result
    ELSE IF \/ lines[i + 1] = "" \/ IsSpace(CharAt(lines[i + 1], 0))
            \/ ~EndsWith(TrimEnd(lines[i + 1]), ":")
    THEN YarnV1Scan(lines, i + 1, result)
    ELSE YarnV1Scan(lines, YarnV1Body(lines, YarnV1HeaderEnd(lines, i), "").i,
                    YarnV1Block(lines, i, YarnV1HeaderEnd(lines, i),
                                YarnV1Body(lines, YarnV1HeaderEnd(lines, i), ""), result))

parseYarnV1Lock(content) == Returned(YarnV1Scan(SplitLines(content), 0, EmptyMap))

\* vm[1] || vm[2] || vm[3] of
\* /^\s{2}version:\s*(?:"([^"]+)"|'([^']+)'|([^\s#]+))/.exec(line), "" when the
\* line does not match; p is the index where the value starts, and the bare
\* value runs to the next white space or '#'
YarnBerryVersionOfLine(line) ==
    LET p == SkipSpace(line, 10)
    IN  IF ~(/\ IsSpace(CharAt(line, 0)) /\ IsSpace(CharAt(line, 1))
             /\ Slice(line, 2, 10) = "version:")
        THEN ""
        ELSE IF CharAt(line, p) = "\"" /\ IndexOfFrom(line, "\"", p + 1) > p + 1
        THEN Slice(line, p + 1, IndexOfFrom(line, "\"", p + 1))
        ELSE IF CharAt(line, p) = "'" /\ IndexOfFrom(line, "'", p + 1) > p + 1
        THEN Slice(line, p + 1, IndexOfFrom(line, "'", p + 1))
        ELSE Slice(line, p,
                   Least({i \in p..(Len(line) - 1) :
                              IsSpace(CharAt(line, i)) \/ CharAt(line, i) = "#"},
                         Len(line)))

\* headerLine.split(',') and the three maps: each specifier trimmed, without the
\* colon, without the quotes
YarnBerrySpecifiers(line) ==
    LET pieces == Split(Trim(line), ",")
    IN  [k \in 1..Len(pieces) |->
            StripQuoteChars(StripQuoteChars(DropTrailing(Trim(pieces[k]), ":"), "\""), "'")]

\* the body loop of parseYarnBerryLock
RECURSIVE YarnBerryBody(_, _, _)
YarnBerryBody(lines, i, version) ==
    IF i >= Len(lines) THEN [i |-> i, version |-> version]
    ELSE IF lines[i + 1] = "" \/ ~StartsWith(lines[i + 1], " ")
    THEN [i |-> i, version |-> version]
    ELSE YarnBerryBody(lines, i + 1,
                       IF YarnBerryVersionOfLine(lines[i + 1]) # ""
                       THEN YarnBerryVersionOfLine(lines[i + 1]) ELSE version)

\* for (const spec of specifiers) in parseYarnBerryLock
RECURSIVE YarnBerryAddSpecifiers(_, _, _, _)
YarnBerryAddSpecifiers(specifiers, k, version, result) ==
    IF k > Len(specifiers) THEN result
    ELSE YarnBerryAddSpecifiers(specifiers, k + 1, version,
             IF yarnBerrySpecifierToName(specifiers[k]) # ""
             THEN addVersion(result, yarnBerrySpecifierToName(specifiers[k]), version)
             ELSE result)

\* the block whose header is line, body the outcome of its body loop: what it
\* adds to result
YarnBerryBlock(line, body, result) ==
    IF body.version = "" THEN result
    ELSE YarnBerryAddSpecifiers(YarnBerrySpecifiers(line), 1, body.version, result)

\* the outer loop of parseYarnBerryLock
RECURSIVE YarnBerryScan(_, _, _)
YarnBerryScan(lines, i, result) ==
    IF i >= Len(lines) THEN result
    ELSE IF \/ lines[i + 1] = "" \/ StartsWith(TrimStart(lines[i + 1]), "#")
            \/ (~StartsWith(lines[i + 1], "\"") /\ ~StartsWith(lines[i + 1], "'"))
            \/ ~EndsWith(TrimEnd(lines[i + 1]), ":")
    THEN YarnBerryScan(lines, i + 1, result)
    ELSE YarnBerryScan(lines, YarnBerryBody(lines, i + 1, "").i,
                       YarnBerryBlock(lines[i + 1], YarnBerryBody(lines, i + 1, ""), result))

parseYarnBerryLock(content) == Returned(YarnBerryScan(SplitLines(content), 0, EmptyMap))

\* l.replace(/(^|\s)\/\/.*$/, '$1'): the leftmost // at the start of the line or
\* after white space, and what follows it, are removed
StripLineComment(l) ==
    Slice(l, 0, Least({i \in 0..(Len(l) - 2) :
                         /\ Slice(l, i, i + 2) = "//"
                         /\ (i = 0 \/ IsSpace(CharAt(l, i - 1)))
                         /\ NoLineTerminator(SliceFrom(l, i))}, Len(l)))

\* the first JSON.parse, and in its catch the retry on the text without line
\* comments
BunParseJson(content) ==
    IF JSONParse(content).ok THEN JSONParse(content)
    ELSE JSONParse(Join([k \in 1..Len(SplitLines(content)) |->
                            StripLineComment(SplitLines(content)[k])], "\n"))

\* one iteration of the loop over an array-shaped `packages`
BunArrayItem(entry, result) ==
    IF ~Truthy(entry) THEN result
    ELSE IF Truthy(Get(entry, "name")) /\ Truthy(Get(entry, "version"))
    THEN addVersion(result, Get(entry, "name").s, Get(entry, "version").s)
    ELSE result

RECURSIVE BunArrayLoop(_, _, _)
BunArrayLoop(pkgs, k, result) ==
    IF k > Len(pkgs.kids) THEN result
    ELSE BunArrayLoop(pkgs, k + 1, BunArrayItem(pkgs.kids[k][2], result))

\* the text before the last '@' of the key: what the amended C10 rules out
BunNameByLastAt(spec) ==
    IF LastIndexOf(spec, "@") > 0 THEN Slice(spec, 0, LastIndexOf(spec, "@")) ELSE ""

\* the name derived from a key of an object-shaped `packages`: the text before
\* spec.indexOf('@', 1) for a scoped key, before spec.indexOf('@') otherwise
BunNameFromKey(spec) ==
    IF StartsWith(spec, "@")
    THEN (IF IndexOfFrom(spec, "@", 1) > 0 THEN Slice(spec, 0, IndexOfFrom(spec, "@", 1)) ELSE "")
    ELSE (IF IndexOf(spec, "@") > 0 THEN Slice(spec, 0, IndexOf(spec, "@")) ELSE "")

\* one iteration of the loop over an object-shaped `packages`
BunLoopBody(key, entry, result) ==
    LET version == AndGet(entry, "version")
        name == IF Truthy(AndGet(entry, "name")) THEN AndGet(entry, "name").s
                ELSE BunNameFromKey(key)
    IN  IF ~Truthy(version) THEN result
        ELSE IF name = "" THEN result
        ELSE addVersion(result, name, version.s)

RECURSIVE BunObjectLoop(_, _, _, _)
BunObjectLoop(pkgs, keys, k, result) ==
    IF k > Len(keys) THEN result
    ELSE BunObjectLoop(pkgs, keys, k + 1, BunLoopBody(keys[k], Get(pkgs, keys[k]), result))

\* the three shapes of `packages`: an array, an object, anything else
BunFromPackages(pkgs) ==
    IF ~Truthy(pkgs) THEN Returned(EmptyMap)
    ELSE IF pkgs.t = "arr" THEN Returned(BunArrayLoop(pkgs, 1, EmptyMap))
    ELSE IF pkgs.t = "obj" THEN Returned(BunObjectLoop(pkgs, Keys(pkgs), 1, EmptyMap))
    ELSE Returned(EmptyMap)

\* const pkgs = json && json.packages
BunFromParsed(parsed) ==
    IF ~parsed.ok THEN Returned(EmptyMap) ELSE BunFromPackages(AndGet(parsed.value, "packages"))

parseBunLock(content) == BunFromParsed(BunParseJson(content))

\* a dialect chosen from the text under every lockfile name: what the amended C7
\* rules out
DialectOfContentFirst(path, content) ==
    IF Includes(content, "yarn lockfile v1") THEN "yarn-classic"
    ELSE IF EndsWith(path, "package-lock.json") THEN "npm"
    ELSE IF EndsWith(path, "pnpm-lock.yaml") THEN "pnpm"
    ELSE IF EndsWith(path, "yarn.lock") THEN "yarn-berry"
    ELSE IF EndsWith(path, "bun.lock") THEN "bun"
    ELSE "unknown"

\* the dialect the if-chain of parseLockfile and of findLockfileLine selects
DialectOf(path, content) ==
    IF EndsWith(path, "package-lock.json") THEN "npm"
    ELSE IF EndsWith(path, "pnpm-lock.yaml") THEN "pnpm"
    ELSE IF EndsWith(path, "yarn.lock")
    THEN (IF Includes(content, "yarn lockfile v1") THEN "yarn-classic" ELSE "yarn-berry")
    ELSE IF EndsWith(path, "bun.lock") THEN "bun"
    ELSE "unknown"

\* the parser of a dialect, its outcome tagged with the dialect; an unknown
\* lockfile yields new Map()
ParseWith(dialect, content) ==
    [by |-> dialect] @@
    CASE dialect = "npm" -> parseNpmLock(content)
      [] dialect = "pnpm" -> parsePnpmLock(content)
      [] dialect = "yarn-classic" -> parseYarnV1Lock(content)
      [] dialect = "yarn-berry" -> parseYarnBerryLock(content)
      [] dialect = "bun" -> parseBunLock(content)
      [] OTHER -> Returned(EmptyMap)

parseLockfile(path, content) == ParseWith(DialectOf(path, content), content)

(***************************************************************************)
(* The diff engine                                                         *)
(***************************************************************************)

\* a comparison in one direction only: what C14 rules out
setsEqualOneWay(a, b) == \A v \in a : v \in b

\* a comparison by size alone: what C3 rules out
setsEqualBySize(a, b) == Cardinality(a) = Cardinality(b)

setsEqual(a, b) ==
    IF Cardinality(a) # Cardinality(b) THEN FALSE ELSE \A v \in a : v \in b

\* new Set([...prev.keys(), ...curr.keys()]) in iteration order
RECURSIVE Dedup(_, _)
Dedup(names, seen) ==
    IF Len(names) = 0 THEN <<>>
    ELSE IF names[1] \in seen THEN Dedup(Tail(names), seen)
    ELSE <<names[1]>> \o Dedup(Tail(names), seen \cup {names[1]})

\* a record of the one-sided versions: what the amended C4 rules out
DiffRecordOneSided(name, a, b) == [name |-> name, previous |-> a \ b, current |-> b \ a]

\* {name, previous: a, current: b}
DiffRecord(name, a, b) == [name |-> name, previous |-> a, current |-> b]

\* the loop of diffDependencySets: if (!setsEqual(a, b)) changes.push(...)
RECURSIVE DiffLoop(_, _, _, _, _)
DiffLoop(prev, curr, names, k, found) ==
    IF k > Len(names) THEN found
    ELSE DiffLoop(prev, curr, names, k + 1,
                  IF ~setsEqual(MapGetOrEmpty(prev, names[k]), MapGetOrEmpty(curr, names[k]))
                  THEN Append(found, DiffRecord(names[k], MapGetOrEmpty(prev, names[k]),
                                                MapGetOrEmpty(curr, names[k])))
                  ELSE found)

diffDependencySets(prev, curr) ==
    DiffLoop(prev, curr,
             Dedup([i \in 1..Len(prev) |-> prev[i].name]
                   \o [i \in 1..Len(curr) |-> curr[i].name], {}), 1, <<>>)

(***************************************************************************)
(* The line locator.  A call returns a 1-based line number or undefined.   *)
(***************************************************************************)

Undefined == [found |-> FALSE, line |-> 0]
Line(n) == [found |-> TRUE, line |-> n]

ScanWindow == 30    \* lines findLineInBunLock reads from a "name" line on

countLinesBefore(content, index) ==
    1 + Cardinality({i \in 0..(index - 1) : i < Len(content) /\ CharAt(content, i) = "\n"})

\* the key of the package first, its "name" member second
findLineInNpmLock(content, name) ==
    IF IndexOf(content, "\"node_modules/" \o name \o "\"") >= 0
    THEN Line(countLinesBefore(content, IndexOf(content, "\"node_modules/" \o name \o "\"")))
    ELSE IF IndexOf(content, "\"name\": \"" \o name \o "\"") >= 0
    THEN Line(countLinesBefore(content, IndexOf(content, "\"name\": \"" \o name \o "\"")))
    ELSE Undefined

\* the two loops of findLineInPnpmLock; needle is `/${name}@${version}`
PnpmFindIn(lines, needle) ==
    IF \E i \in 1..Len(lines) : /\ lines[i] # "" /\ Includes(lines[i], needle)
                                /\ EndsWith(TrimEnd(lines[i]), ":")
    THEN Line(Least({i \in 1..Len(lines) : /\ lines[i] # "" /\ Includes(lines[i], needle)
                                           /\ EndsWith(TrimEnd(lines[i]), ":")}, 0))
    ELSE IF \E i \in 1..Len(lines) : lines[i] # "" /\ StartsWith(TrimStart(lines[i]), needle)
    THEN Line(Least({i \in 1..Len(lines) :
                        lines[i] # "" /\ StartsWith(TrimStart(lines[i]), needle)}, 0))
    ELSE Undefined

findLineInPnpmLock(content, name, version) ==
    PnpmFindIn(SplitLines(content), "/" \o name \o "@" \o version)

\* the inner loop without its stop at a top-level line
RECURSIVE YarnV1FindInBodyThrough(_, _, _)
YarnV1FindInBodyThrough(lines, j, version) ==
    IF j >= Len(lines) THEN -1
    ELSE IF version # "" /\ YarnV1VersionOfLine(lines[j + 1]) = version THEN j
    ELSE YarnV1FindInBodyThrough(lines, j + 1, version)

\* the inner loop of findLineInYarnV1Lock: the 0-based index of the version line
\* that matches, -1 if the loop ends without one
RECURSIVE YarnV1FindInBody(_, _, _)
YarnV1FindInBody(lines, j, version) ==
    IF ~(j < Len(lines) /\ (StartsWith(lines[j + 1], " ") \/ lines[j + 1] = "")) THEN -1
    ELSE IF version # "" /\ YarnV1VersionOfLine(lines[j + 1]) = version THEN j
    ELSE IF /\ lines[j + 1] # "" /\ ~StartsWith(lines[j + 1], " ")
            /\ EndsWith(TrimEnd(lines[j + 1]), ":")
    THEN -1
    ELSE YarnV1FindInBody(lines, j + 1, version)

\* the outer loop of findLineInYarnV1Lock
RECURSIVE YarnV1FindLoop(_, _, _, _)
YarnV1FindLoop(lines, i, name, version) ==
    IF i >= Len(lines) THEN Undefined
    ELSE IF \/ lines[i + 1] = "" \/ StartsWith(lines[i + 1], " ")
            \/ ~EndsWith(TrimEnd(lines[i + 1]), ":")
            \/ ~Includes(lines[i + 1], name \o "@")
    THEN YarnV1FindLoop(lines, i + 1, name, version)
    ELSE IF YarnV1FindInBody(lines, i + 1, version) >= 0
    THEN Line(YarnV1FindInBody(lines, i + 1, version) + 1)
    ELSE YarnV1FindLoop(lines, i + 1, name, version)

findLineInYarnV1Lock(content, name, version) ==
    YarnV1FindLoop(SplitLines(content), 0, name, version)

\* the inner loop of findLineInYarnBerryLock
RECURSIVE YarnBerryFindInBody(_, _, _)
YarnBerryFindInBody(lines, j, version) ==
    IF ~(j < Len(lines) /\ (StartsWith(lines[j + 1], " ") \/ lines[j + 1] = "")) THEN -1
    ELSE IF version # "" /\ YarnBerryVersionOfLine(lines[j + 1]) = version THEN j
    ELSE IF /\ lines[j + 1] # "" /\ ~StartsWith(lines[j + 1], " ")
            /\ EndsWith(TrimEnd(lines[j + 1]), ":")
    THEN -1
    ELSE YarnBerryFindInBody(lines, j + 1, version)

\* the outer loop of findLineInYarnBerryLock
RECURSIVE YarnBerryFindLoop(_, _, _, _)
YarnBerryFindLoop(lines, i, name, version) ==
    IF i >= Len(lines) THEN Undefined
    ELSE IF \/ lines[i + 1] = "" \/ StartsWith(lines[i + 1], " ")
            \/ StartsWith(TrimStart(lines[i + 1]), "#")
            \/ ~EndsWith(TrimEnd(lines[i + 1]), ":")
            \/ ~Includes(lines[i + 1], name \o "@")
    THEN YarnBerryFindLoop(lines, i + 1, name, version)
    ELSE IF YarnBerryFindInBody(lines, i + 1, version) >= 0
    THEN Line(YarnBerryFindInBody(lines, i + 1, version) + 1)
    ELSE YarnBerryFindLoop(lines, i + 1, name, version)

findLineInYarnBerryLock(content, name, version) ==
    YarnBerryFindLoop(SplitLines(content), 0, name, version)

\* new RegExp(`"version"\s*:\s*"<version, escaped>"`).test(v)
HasVersionField(v, version) ==
    \E i \in 0..(Len(v) - 1) :
        /\ Slice(v, i, i + 9) = "\"version\""
        /\ CharAt(v, SkipSpace(v, i + 9)) = ":"
        /\ StartsWith(SliceFrom(v, SkipSpace(v, SkipSpace(v, i + 9) + 1)),
                      "\"" \o version \o "\"")

\* the inner loop of findLineInBunLock, from line j to before line last: the
\* 0-based index of the line with the version, -1 if the loop ends without one
RECURSIVE BunFindAfterName(_, _, _, _)
BunFindAfterName(lines, j, last, version) ==
    IF j >= last \/ j >= Len(lines) THEN -1
    ELSE IF HasVersionField(lines[j + 1], version) THEN j
    ELSE IF lines[j + 1] # "" /\ Includes(lines[j + 1], "}") THEN -1
    ELSE BunFindAfterName(lines, j + 1, last, version)

\* the first loop of findLineInBunLock: the 0-based index it returns, -1 if it
\* ends without one
RECURSIVE BunFindByName(_, _, _, _)
BunFindByName(lines, i, name, version) ==
    IF i >= Len(lines) THEN -1
    ELSE IF /\ lines[i + 1] # "" /\ Includes(lines[i + 1], "\"name\"")
            /\ Includes(lines[i + 1], "\"" \o name \o "\"")
            /\ BunFindAfterName(lines, i, i + ScanWindow, version) >= 0
    THEN BunFindAfterName(lines, i, i + ScanWindow, version)
    ELSE BunFindByName(lines, i + 1, name, version)

\* the three loops of findLineInBunLock
BunFindIn(lines, name, version) ==
    IF BunFindByName(lines, 0, name, version) >= 0
    THEN Line(BunFindByName(lines, 0, name, version) + 1)
    ELSE IF \E i \in 1..Len(lines) :
                Includes(lines[i], "\"" \o name \o "@" \o version \o "\"")
    THEN Line(Least({i \in 1..Len(lines) :
                        Includes(lines[i], "\"" \o name \o "@" \o version \o "\"")}, 0))
    ELSE IF \E i \in 1..Len(lines) : HasVersionField(lines[i], version)
    THEN Line(Least({i \in 1..Len(lines) : HasVersionField(lines[i], version)}, 0))
    ELSE Undefined

findLineInBunLock(content, name, version) == BunFindIn(SplitLines(content), name, version)

\* the locator of a dialect, its outcome tagged with the dialect; an unknown
\* lockfile yields undefined
LocateWith(dialect, content, name, version) ==
    [by |-> dialect] @@
    CASE dialect = "npm" -> findLineInNpmLock(content, name)
      [] dialect = "pnpm" -> findLineInPnpmLock(content, name, version)
      [] dialect = "yarn-classic" -> findLineInYarnV1Lock(content, name, version)
      [] dialect = "yarn-berry" -> findLineInYarnBerryLock(content, name, version)
      [] dialect = "bun" -> findLineInBunLock(content, name, version)
      [] OTHER -> Undefined

findLockfileLine(path, content, name, version) ==
    LocateWith(DialectOf(path, content), content, name, version)

(***************************************************************************)
(* The run: the lockfile of the workspace is read at the base and at the   *)
(* current revision and both texts are parsed under the same lockfilePath  *)
(* (src/src/main.ts); the two maps are compared by diffDependencySets and  *)
(* a pair is located in the current text by findLockfileLine, the two      *)
(* other exports of src/src/lockfile.ts.  pc is the set of calls made.     *)
(***************************************************************************)

NotParsed == [by |-> "unknown", threw |-> FALSE, map |-> EmptyMap]
NotLocated == [by |-> "unknown", found |-> FALSE, line |-> 0]

\* no other function of src/ is under way
NotReturned == [done |-> FALSE]

NoCall ==
    /\ call = [fn |-> "none"]
    /\ locals = [at |-> 0]
    /\ returned = NotReturned
    /\ messages = <<>>
    /\ heap = <<>>
    /\ comments = <<>>
    /\ metaCache = <<>>
    /\ requests = <<>>

\* the run before its first call, for given lockfile names and texts
InitLock(paths, baseTexts, currentTexts) ==
    /\ pc = {}
    /\ lockfilePath \in paths
    /\ basePackageLock \in baseTexts
    /\ currentPackageLock \in currentTexts
    /\ baseDeps = NotParsed
    /\ currentDeps = NotParsed
    /\ changes = <<>>
    /\ query = <<"", "">>
    /\ located = NotLocated

\* the state after construction, for given lockfile names and texts
InitWith(paths, baseTexts, currentTexts) ==
    /\ InitLock(paths, baseTexts, currentTexts)
    /\ NoCall

\* const currentDeps = parseLockfile(lockfilePath, currentPackageLock)
ParseCurrent ==
    /\ "parseCurrent" \notin pc
    /\ currentDeps' = parseLockfile(lockfilePath, currentPackageLock)
    /\ pc' = pc \cup {"parseCurrent"}
    /\ UNCHANGED <<lockfilePath, basePackageLock, currentPackageLock, baseDeps,
                   changes, query, located>>
    /\ UNCHANGED <<callVars, worldVars>>

\* const baseDeps = parseLockfile(lockfilePath, basePackageLock): reached only when
\* the first call returned
ParseBase ==
    /\ "parseCurrent" \in pc
    /\ ~currentDeps.threw
    /\ "parseBase" \notin pc
    /\ baseDeps' = parseLockfile(lockfilePath, basePackageLock)
    /\ pc' = pc \cup {"parseBase"}
    /\ UNCHANGED <<lockfilePath, basePackageLock, currentPackageLock, currentDeps,
                   changes, query, located>>
    /\ UNCHANGED <<callVars, worldVars>>

\* diffDependencySets(baseDeps, currentDeps)
Diff ==
    /\ {"parseCurrent", "parseBase"} \subseteq pc
    /\ ~baseDeps.threw
    /\ "diff" \notin pc
    /\ changes' = diffDependencySets(baseDeps.map, currentDeps.map)
    /\ pc' = pc \cup {"diff"}
    /\ UNCHANGED <<lockfilePath, basePackageLock, currentPackageLock, baseDeps,
                   currentDeps, query, located>>
    /\ UNCHANGED <<callVars, worldVars>>

\* findLockfileLine(lockfilePath, currentPackageLock, name, version)
Locate(name, version) ==
    /\ "locate" \notin pc
    /\ query' = <<name, version>>
    /\ located' = findLockfileLine(lockfilePath, currentPackageLock, name, version)
    /\ pc' = pc \cup {"locate"}
    /\ UNCHANGED <<lockfilePath, basePackageLock, currentPackageLock, baseDeps,
                   currentDeps, changes>>
    /\ UNCHANGED <<callVars, worldVars>>

\* the pairs a run asks the locator for
LocateAny ==
    \E name \in {"foo", "@s/bar", "zzz"}, version \in {"1.0.0", "2.0.0", "9.9.9"} :
        Locate(name, version)

NextParse == ParseCurrent \/ ParseBase \/ Diff

NextRun == ParseCurrent \/ ParseBase \/ Diff \/ LocateAny

(***************************************************************************)
(* Lockfile texts: the bounded sets the runs read.                         *)
(***************************************************************************)

MaxBlocks == 2     \* blocks of a yarn.lock
MaxKeys == 2       \* package keys of a pnpm-lock.yaml
MaxChunks == 5     \* top-level pieces of a pnpm-lock.yaml

\* all sequences (repetition allowed) of at most n elements of pool, concatenated
RECURSIVE TextsUpTo(_, _)
TextsUpTo(pool, n) ==
    IF n = 0 THEN {""}
    ELSE TextsUpTo(pool, n - 1) \cup {t \o e : t \in TextsUpTo(pool, n - 1), e \in pool}

YarnV1Preamble == "# yarn lockfile v1\n\n\n"

YarnV1BlockPool ==
    { "\"a@^1.0.0\", \"a@^1.1.0\":\n  version \"1.1.0\"\n\n",
      "foo@^1.0.0:\n  version \"1.0.0\"\n  resolved \"u\"\n\n",
      "\"@s/bar@^2.0.0\":\n  version \"2.0.0\"\n\n",
      "foo@^1.1.0, foo@~1.1.0:\n  version \"1.1.0\"\n\n",
      "\"@s/bar@^2.0.0\", \"@s/bar@^2.1.0\":\n  version \"2.1.0\"\n  dependencies:\n    foo \"^1.0.0\"\n\n",
      "nov@^1.0.0:\n  resolved \"u\"\n\n",
      "\"a@^1.0.0\",\n\"a@^2.0.0\":\n  version \"2.0.0\"\n\n",
      "hdr@^1.0.0:\n" }

YarnV1Texts == {YarnV1Preamble \o t : t \in TextsUpTo(YarnV1BlockPool, MaxBlocks)}

YarnBerryPreamble == "__metadata:\n  version: 6\n\n"

YarnBerryBlockPool ==
    { "\"foo@npm:^1.0.0\":\n  version: 1.0.0\n  resolution: \"foo@npm:1.0.0\"\n\n",
      "\"@s/bar@npm:^2.0.0, @s/bar@npm:^2.1.0\":\n  version: 2.1.0\n\n",
      "\"a@npm:^1.0.0\":\n  version: \"1.1.0\"\n\n",
      "\"nov@npm:^1.0.0\":\n  resolution: \"nov@npm:1.0.0\"\n\n" }

PnpmPreamble == "lockfileVersion: '6.0'\n\n"

\* the package keys of a pnpm-lock.yaml, as written in the file
PnpmKeyPool ==
    { "/lodash@4.17.21",
      "\"/@scope/name@1.2.3\"",
      "/@scope/name@1.2.3",
      "'@s/bar@2.0.0'",
      "/\"@s/bar@2.0.0\"",
      "'/@s/bar@2.1.0(react@18.0.0)'",
      "/foo@1.0.0(bar@2.0.0)",
      "foo@1.0.0",
      "'@bare'" }

PnpmKeyTexts ==
    { PnpmPreamble \o "packages:\n\n" \o t :
        t \in TextsUpTo({"  " \o k \o ":\n    resolution: {integrity: sha512-x}\n\n" :
                            k \in PnpmKeyPool}, MaxKeys) }

PnpmChunkPool ==
    { "packages:\n",
      "snapshots:\n",
      "lockfileVersion: '9.0'\n",
      "  /lodash@4.17.21:\n    resolution: {integrity: sha512-x}\n",
      "  foo@1.0.0:\n" }

PnpmChunkTexts == TextsUpTo(PnpmChunkPool, MaxChunks)

NpmTexts == {JsonText(d) : d \in NpmDocs}

\* the package-lock.json texts of the base revision
NpmBaseTexts ==
    { JsonText(d) : d \in {e \in NpmDocs :
        Keys(Get(e, "packages")) \in
            { <<>>,
              <<"node_modules/foo">>,
              <<"node_modules/@s/bar">>,
              <<"node_modules/foo", "node_modules/@s/bar/node_modules/foo">>,
              <<"node_modules/foo", "node_modules/baz">>,
              <<"node_modules/baz", "node_modules/@s/bar">> }} }

\* a bun.lock as bun writes it starts with a comment line or does not
BunTexts ==
    {JsonText(d) : d \in BunObjectDocs \cup BunArrayDocs}
    \cup {"// bun lockfile\n" \o JsonText(d) \o "\n" : d \in BunObjectDocs}

\* texts of every dialect, and texts of none
RunTexts ==
    {JsonText(d) : d \in ShapeDocs}
    \cup {"", "not a lockfile\n", "// bun lockfile\n{ \"packages\": {}, }\n"}
    \cup NpmBaseTexts
    \cup {JsonText(d) : d \in {e \in BunObjectDocs \cup BunArrayDocs :
                                 Len(Get(e, "packages").kids) = 1}}
    \cup {YarnV1Preamble \o b : b \in YarnV1BlockPool}
    \cup {YarnBerryPreamble \o b : b \in YarnBerryBlockPool}
    \cup {PnpmPreamble \o "packages:\n\n  " \o k \o ":\n    resolution: {integrity: sha512-x}\n"
              : k \in PnpmKeyPool}

RunBaseTexts ==
    { "null",
      JsonText(JObj(<< <<"lockfileVersion", JNum("3")>>, <<"packages", JObj(<<>>)>> >>)),
      YarnV1Preamble \o "foo@^1.0.0:\n  version \"1.0.0\"\n  resolved \"u\"\n\n",
      YarnBerryPreamble \o "\"foo@npm:^1.0.0\":\n  version: 1.0.0\n  resolution: \"foo@npm:1.0.0\"\n\n" }

\* lockfile names: the four supported ones, one in a workspace, and three others
LockfilePaths ==
    { "package-lock.json", "pnpm-lock.yaml", "yarn.lock", "bun.lock",
      "apps/web/yarn.lock", "bun.lockb", "Cargo.lock" }

(***************************************************************************)
(* What the specification says of the parsers, stated on the text alone.   *)
(***************************************************************************)

\* the (name, version) pairs a map holds
Pairs(map) == UNION {{<<map[i].name, v>> : v \in map[i].versions} : i \in 1..Len(map)}

\* the text before the last '@' of a specifier or key, the text after it
BeforeLastAt(s) ==
    CHOOSE p \in {Slice(s, 0, i) : i \in 0..Len(s)} :
        \E r \in {SliceFrom(s, i) : i \in 0..Len(s)} : s = p \o "@" \o r /\ ~Includes(r, "@")

AfterLastAt(s) ==
    CHOOSE r \in {SliceFrom(s, i) : i \in 0..Len(s)} : s = BeforeLastAt(s) \o "@" \o r

\* the specifiers of a one-line header: the comma-separated items without their quotes
HeaderSpecifiers(line) ==
    LET items == Split(DropTrailing(line, ":"), ",")
    IN  {StripQuoteChars(Trim(items[k]), "\"") : k \in 1..Len(items)}

\* a header of quoted specifiers that stands on one line of its own
IsQuotedHeaderAt(lines, i) ==
    /\ StartsWith(lines[i], "\"") /\ EndsWith(lines[i], "\":")
    /\ (i = 1 \/ lines[i - 1] = "")

\* the value of a body line `  version "<v>"`, "" for any other line
QuotedVersionOf(line) ==
    IF StartsWith(line, "  version \"") /\ EndsWith(line, "\"") /\ Len(line) > 12
    THEN Slice(line, 11, Len(line) - 1)
    ELSE ""

(***************************************************************************)
(* yarn.lock (classic) runs                                                *)
(***************************************************************************)

SpecYarnV1 ==
    /\ InitWith({"yarn.lock"},
                {YarnV1Preamble, YarnV1Preamble \o "foo@^1.0.0:\n  version \"1.0.0\"\n\n"},
                YarnV1Texts)
    /\ [][NextParse]_vars

\* C1: in a yarn-classic text, a header that is one line of comma-separated quoted
\* specifiers, followed by the body line `  version "<v>"`, contributes (name, v)
\* for every specifier, name being the specifier's text before its last '@'; the
\* header "a@^1.0.0", "a@^1.1.0": with version 1.1.0 yields exactly {a: {1.1.0}}.
C1_EverySpecifierOfOneLineHeader ==
    ("parseCurrent" \in pc /\ currentDeps.by = "yarn-classic") =>
        LET lines == SplitLines(currentPackageLock)
        IN  /\ \A i \in 1..(Len(lines) - 1) :
                  (IsQuotedHeaderAt(lines, i) /\ QuotedVersionOf(lines[i + 1]) # "") =>
                      \A spec \in HeaderSpecifiers(lines[i]) :
                          <<BeforeLastAt(spec), QuotedVersionOf(lines[i + 1])>>
                              \in Pairs(currentDeps.map)
            /\ (currentPackageLock
                  = YarnV1Preamble \o "\"a@^1.0.0\", \"a@^1.1.0\":\n  version \"1.1.0\"\n\n")
                 => currentDeps.map = <<[name |-> "a", versions |-> {"1.1.0"}]>>

(***************************************************************************)
(* pnpm-lock.yaml runs over package keys                                   *)
(***************************************************************************)

SpecPnpmKeys ==
    /\ InitWith({"pnpm-lock.yaml"},
                {PnpmPreamble, PnpmPreamble \o "packages:\n\n  /lodash@4.17.21:\n"},
                PnpmKeyTexts)
    /\ [][NextParse]_vars

\* a key without its matching outer quotes, without its legacy leading slash,
\* without its peer suffix
Unquoted(k) ==
    IF Len(k) >= 2 /\ CharAt(k, 0) \in {"\"", "'"} /\ CharAt(k, Len(k) - 1) = CharAt(k, 0)
    THEN Slice(k, 1, Len(k) - 1)
    ELSE k

Unslashed(k) == IF CharAt(k, 0) = "/" THEN SliceFrom(k, 1) ELSE k

WithoutPeers(k) == Slice(k, 0, Least({i \in 0..(Len(k) - 1) : CharAt(k, i) = "("}, Len(k)))

\* the core of a key as written in the file: quotes and slash removed in either
\* nesting order, then the peer suffix
CoreOfKey(k) == WithoutPeers(Unquoted(Unslashed(Unquoted(k))))

\* the line at 1-based index i lies inside the top-level `packages:` block
InPackagesBlock(lines, i) ==
    \E p \in 1..(i - 1) :
        /\ lines[p] = "packages:"
        /\ \A q \in (p + 1)..i :
              ~(lines[q] # "" /\ ~IsSpace(CharAt(lines[q], 0)) /\ EndsWith(lines[q], ":"))

\* the key of a 2-space-indented key line, "" for any other line
KeyOfLine(line) ==
    IF StartsWith(line, "  ") /\ Len(line) > 3 /\ ~IsSpace(CharAt(line, 2)) /\ EndsWith(line, ":")
    THEN Slice(line, 2, Len(line) - 1)
    ELSE ""

\* C2: a 2-space-indented key inside the `packages:` block yields the pair (text
\* before the last '@' of its core, text after it), the core being the key
\* without its outer quotes and its legacy leading '/', whatever their nesting
\* order; the key "/@scope/name@1.2.3" (quoted) yields (@scope/name, 1.2.3).
C2_QuotedSlashKeyYieldsScopedName ==
    ("parseCurrent" \in pc /\ currentDeps.by = "pnpm") =>
        LET lines == SplitLines(currentPackageLock)
        IN  /\ \A i \in 1..Len(lines) :
                  (/\ InPackagesBlock(lines, i)
                   /\ KeyOfLine(lines[i]) # ""
                   /\ LastIndexOf(CoreOfKey(KeyOfLine(lines[i])), "@") > 0) =>
                      <<BeforeLastAt(CoreOfKey(KeyOfLine(lines[i]))),
                        AfterLastAt(CoreOfKey(KeyOfLine(lines[i])))>> \in Pairs(currentDeps.map)
            /\ (\E i \in 1..Len(lines) :
                    InPackagesBlock(lines, i) /\ lines[i] = "  \"/@scope/name@1.2.3\":")
                 => <<"@scope/name", "1.2.3">> \in Pairs(currentDeps.map)

(***************************************************************************)
(* package-lock.json runs                                                  *)
(***************************************************************************)

SpecNpm ==
    /\ InitWith({"package-lock.json"}, NpmBaseTexts, NpmTexts)
    /\ [][NextParse]_vars

\* the names a map holds, and the versions it holds for a name ({} if none)
NamesOf(map) == {p[1] : p \in Pairs(map)}

VersionsOf(map, name) == {p[2] : p \in {q \in Pairs(map) : q[1] = name}}

\* the names whose version sets differ between the two parsed maps
DifferingNames ==
    {n \in NamesOf(baseDeps.map) \cup NamesOf(currentDeps.map) :
        VersionsOf(baseDeps.map, n) # VersionsOf(currentDeps.map, n)}

\* C3: diffDependencySets returns exactly one record for every name of either map
\* whose version sets differ (a name of one side only is compared with the empty
\* set), none for a name whose sets are equal; the diff of a map with itself is
\* the empty list.
C3_OneRecordPerDifferingName ==
    "diff" \in pc =>
        /\ {changes[k].name : k \in 1..Len(changes)} = DifferingNames
        /\ Len(changes) = Cardinality(DifferingNames)
        /\ (baseDeps.map = currentDeps.map => changes = <<>>)

\* a diff that reports a name of one side only and keeps silent about a name whose
\* sets are equal
C3_Witness ==
    /\ "diff" \in pc
    /\ \E n \in NamesOf(currentDeps.map) \ NamesOf(baseDeps.map) :
          \E k \in 1..Len(changes) : changes[k].name = n
    /\ \E n \in NamesOf(baseDeps.map) \cap NamesOf(currentDeps.map) :
          /\ VersionsOf(baseDeps.map, n) = VersionsOf(currentDeps.map, n)
          /\ \A k \in 1..Len(changes) : changes[k].name # n

NpmDocOf(text) == (CHOOSE p \in JsonTexts : p[1] = text)[2]

\* a member of an object: true when it is an object with that member
HasMember(v, key) == v.t = "obj" /\ \E i \in 1..Len(v.kids) : v.kids[i][1] = key

MemberOf(v, key) == v.kids[CHOOSE i \in 1..Len(v.kids) : v.kids[i][1] = key][2].s

\* the part of a key after its final node_modules/ (the whole key when it has
\* none), a trailing slash removed
AfterFinalNodeModules(key) ==
    DropTrailing(SliceFrom(key, Greatest({i + 13 : i \in Occurrences(key, "node_modules/", 0)}, 0)), "/")

\* the pairs the specification assigns to the `packages` object of a document
NpmExpectedPairs(packages) ==
    { <<IF HasMember(packages.kids[i][2], "name")
        THEN MemberOf(packages.kids[i][2], "name")
        ELSE AfterFinalNodeModules(packages.kids[i][1]),
        MemberOf(packages.kids[i][2], "version")>> :
        i \in {j \in 1..Len(packages.kids) :
                 packages.kids[j][1] # "" /\ HasMember(packages.kids[j][2], "version")} }

SpecRun ==
    /\ InitWith(LockfilePaths, RunBaseTexts, RunTexts)
    /\ [][NextRun]_vars

\* C5: parseLockfile never throws on an input-shape problem: for every filename
\* and every text, well-formed JSON of an unexpected shape included, each call
\* returns a map.
C5_ParseNeverThrows == ~currentDeps.threw /\ ~baseDeps.threw

\* C6: findLockfileLine returns undefined, never 0, whenever the text holds no
\* entry for the requested name at the requested version, in every dialect; a
\* text that holds the name at another version, or the version for another
\* package, holds no such entry.
C6_AbsentPairIsNotFound ==
    ({"parseCurrent", "locate"} \subseteq pc /\ ~currentDeps.threw) =>
        /\ (query \notin Pairs(currentDeps.map) => ~located.found)
        /\ (located.found => located.line >= 1)

IsYarnLock(path) == EndsWith(path, "yarn.lock")

\* the dialects a result can carry under a yarn.lock, for a given text
YarnDialectOf(content) ==
    IF Includes(content, "yarn lockfile v1") THEN "yarn-classic" ELSE "yarn-berry"

SpecPnpmBlocks ==
    /\ InitWith({"pnpm-lock.yaml"},
                {PnpmPreamble, PnpmPreamble \o "packages:\n\n  /lodash@4.17.21:\n"},
                PnpmChunkTexts)
    /\ [][NextParse]_vars

\* the 1-based indices of the key lines inside the `packages:` block
KeyLinesInBlock(lines) ==
    {i \in 1..Len(lines) : InPackagesBlock(lines, i) /\ KeyOfLine(lines[i]) # ""}

\* the pair of a key line
PairOfLine(line) ==
    <<BeforeLastAt(CoreOfKey(KeyOfLine(line))), AfterLastAt(CoreOfKey(KeyOfLine(line)))>>

\* C9: parsePnpmLock collects an entry only from lines inside the top-level
\* `packages:` block: the block starts at a column-0 `packages:` line and ends
\* at the next non-indented line ending in ':'; a key line before the block or
\* after that line is not collected unless a later `packages:` line re-enters
\* the block, and every key line inside the block is collected.
C9_OnlyKeysInsidePackagesBlock ==
    ("parseCurrent" \in pc /\ currentDeps.by = "pnpm") =>
        Pairs(currentDeps.map)
          = {PairOfLine(SplitLines(currentPackageLock)[i]) :
               i \in KeyLinesInBlock(SplitLines(currentPackageLock))}

\* a text with a key before the block, a key inside it, and the same key after
\* the line that ends it: only the key inside is collected
C9_Witness ==
    /\ "parseCurrent" \in pc
    /\ currentPackageLock
         = "  foo@1.0.0:\npackages:\n  /lodash@4.17.21:\n    resolution: {integrity: sha512-x}\nsnapshots:\n  foo@1.0.0:\n"
    /\ currentDeps.map = <<[name |-> "lodash", versions |-> {"4.17.21"}]>>

(***************************************************************************)
(* bun.lock runs                                                           *)
(***************************************************************************)

BunBaseTexts ==
    { "{}",
      JsonText(JObj(<< <<"lockfileVersion", JNum("1")>>, <<"packages", JObj(<<>>)>> >>)) }

SpecBun ==
    /\ InitWith({"bun.lock"}, BunBaseTexts, BunTexts)
    /\ [][NextParse]_vars

\* the `packages` value of the document a bun.lock text holds, comment lines
\* aside
BunPackagesOf(text) ==
    Get((CHOOSE p \in JsonTexts :
            p[2] \in BunObjectDocs \cup BunArrayDocs /\ Includes(text, p[1]))[2], "packages")

\* the members of an object-shaped `packages` that have a version and no name
DerivedMembers(packages) ==
    {i \in 1..Len(packages.kids) :
        /\ HasMember(packages.kids[i][2], "version")
        /\ ~HasMember(packages.kids[i][2], "name")}

\* the index of the first '@' of a key that is not its first character, -1 if none
FirstSeparator(key) == Least({i \in 1..(Len(key) - 1) : CharAt(key, i) = "@"}, -1)

\* C10 as stated: for an entry with a version and no explicit name, the name is
\* the text of the key before its last '@', for every key, scoped or not, also
\* when the key holds more '@' than the separator.
C10_NameBeforeLastAt ==
    ("parseCurrent" \in pc /\ BunPackagesOf(currentPackageLock).t = "obj") =>
        \A i \in DerivedMembers(BunPackagesOf(currentPackageLock)) :
            LastIndexOf(BunPackagesOf(currentPackageLock).kids[i][1], "@") > 0 =>
                <<BeforeLastAt(BunPackagesOf(currentPackageLock).kids[i][1]),
                  MemberOf(BunPackagesOf(currentPackageLock).kids[i][2], "version")>>
                    \in Pairs(currentDeps.map)

\* the pairs of an object-shaped `packages` under the first-separator rule
BunExpectedPairs(packages) ==
    { <<IF HasMember(packages.kids[i][2], "name")
        THEN MemberOf(packages.kids[i][2], "name")
        ELSE Slice(packages.kids[i][1], 0, FirstSeparator(packages.kids[i][1])),
        MemberOf(packages.kids[i][2], "version")>> :
        i \in {j \in 1..Len(packages.kids) :
                 /\ HasMember(packages.kids[j][2], "version")
                 /\ (HasMember(packages.kids[j][2], "name")
                       \/ FirstSeparator(packages.kids[j][1]) > 0)} }

\* C10, amended: for an entry with a version and no explicit name, the name is
\* the text of the key before its first '@' that is not the key's first
\* character (the rule of the yarn-berry parser); a key without such an '@'
\* contributes nothing.  This is the text before the last '@' exactly when the
\* key holds one '@' past its first character.
C10_NameBeforeFirstSeparator ==
    ("parseCurrent" \in pc /\ BunPackagesOf(currentPackageLock).t = "obj") =>
        /\ Pairs(currentDeps.map) = BunExpectedPairs(BunPackagesOf(currentPackageLock))
        /\ \A i \in DerivedMembers(BunPackagesOf(currentPackageLock)) :
              (/\ FirstSeparator(BunPackagesOf(currentPackageLock).kids[i][1]) > 0
               /\ FirstSeparator(BunPackagesOf(currentPackageLock).kids[i][1])
                    = LastIndexOf(BunPackagesOf(currentPackageLock).kids[i][1], "@")) =>
                  <<BeforeLastAt(BunPackagesOf(currentPackageLock).kids[i][1]),
                    MemberOf(BunPackagesOf(currentPackageLock).kids[i][2], "version")>>
                      \in Pairs(currentDeps.map)

\* a bun.lock with an aliased key and a scoped aliased key
C10_Witness ==
    /\ "parseCurrent" \in pc
    /\ Keys(BunPackagesOf(currentPackageLock))
         = <<"foo@npm:baz@1.1.0", "@s/bar@npm:@t/qux@2.1.0">>
    /\ currentDeps.map = << [name |-> "foo", versions |-> {"1.1.0"}],
                            [name |-> "@s/bar", versions |-> {"2.1.0"}] >>


(***************************************************************************)
(* computeDependencyVersions (src/unnamed/part_008): the VersionsSet of a  *)
(* lockfile parsed by lockparse.  A call runs one iteration of its loop    *)
(* at a time; locals.at counts the packages read so far.                   *)
(***************************************************************************)

MaxPackages == 3    \* packages of a parsed lockfile

\* the packages of a parsed lockfile; a missing name or version is ''
PackagePool ==
    { [name |-> "foo", version |-> "1.0.0"], [name |-> "bar", version |-> "1.0.0"],
      [name |-> "", version |-> "1.0.0"], [name |-> "bar", version |-> ""] }

ParsedLockFiles == {[packages |-> q] : q \in SeqsUpTo(PackagePool, MaxPackages)}

\* an iteration that inserts every package, named and versioned or not: what C11
\* rules out
ComputeLoopBodyNoSkip(pkg, result) == addVersion(result, pkg.name, pkg.version)

\* if (!pkg.name || !pkg.version) continue; addVersion(result, pkg.name, pkg.version)
ComputeLoopBody(pkg, result) ==
    IF pkg.name = "" \/ pkg.version = "" THEN result
    ELSE addVersion(result, pkg.name, pkg.version)

\* const result = new Map(), before the loop
InitCompute(lockFiles) ==
    /\ call \in {[fn |-> "computeDependencyVersions", lockFile |-> f] : f \in lockFiles}
    /\ locals = [at |-> 0, result |-> EmptyMap]
    /\ returned = NotReturned
    /\ messages = <<>>
    /\ heap = <<>>
    /\ comments = <<>>
    /\ metaCache = <<>>
    /\ requests = <<>>

\* one iteration of for (const pkg of lockFile.packages)
ComputeStep ==
    /\ call.fn = "computeDependencyVersions"
    /\ ~returned.done
    /\ locals.at < Len(call.lockFile.packages)
    /\ locals' = [at |-> locals.at + 1,
                  result |-> ComputeLoopBody(call.lockFile.packages[locals.at + 1],
                                             locals.result)]
    /\ UNCHANGED <<lockVars, worldVars, call, returned, messages, heap>>

\* return result
ComputeReturn ==
    /\ call.fn = "computeDependencyVersions"
    /\ ~returned.done
    /\ locals.at = Len(call.lockFile.packages)
    /\ returned' = [done |-> TRUE, value |-> locals.result]
    /\ UNCHANGED <<lockVars, worldVars, call, locals, messages, heap>>

NextBuild == ParseCurrent \/ ParseBase \/ ComputeStep \/ ComputeReturn

(***************************************************************************)
(* diffDependencySets on objects (src/src/lockfile.ts): a VersionsSet maps *)
(* a name to a Set object, heap[ref] is the content of the Set object ref, *)
(* and a record holds the Set objects the call put into it.                *)
(***************************************************************************)

\* the versions of the diff runs: the content of a Set object
DiffVersionSets == {{"1.0.0"}, {"2.0.0"}, {"1.0.0", "2.0.0"}}

\* the VersionsSets over the names foo and bar, by value
DiffMaps ==
    {<<>>}
    \cup {<<[name |-> n, versions |-> s]>> : n \in {"foo", "bar"}, s \in DiffVersionSets}
    \cup {<<[name |-> "foo", versions |-> s], [name |-> "bar", versions |-> t]>> :
             s \in DiffVersionSets, t \in DiffVersionSets}

\* map.get(name): the reference the map holds for name, 0 (undefined) if none
RefOf(map, name) ==
    IF \E i \in 1..Len(map) : map[i].name = name
    THEN map[CHOOSE i \in 1..Len(map) : map[i].name = name].ref
    ELSE 0

\* `map.get(name) || new Set()`: the heap after it, and the reference it yields
HeapAfterGet(map, name, h) == IF RefOf(map, name) = 0 THEN Append(h, {}) ELSE h

GetOrNewSet(map, name, h) == IF RefOf(map, name) = 0 THEN Len(h) + 1 ELSE RefOf(map, name)

\* if (!setsEqual(a, b)) changes.push({name, previous: a, current: b})
DiffPush(name, a, b, st) ==
    IF ~setsEqual(st.heap[a], st.heap[b])
    THEN [st EXCEPT !.changes = Append(@, [name |-> name, previous |-> a, current |-> b])]
    ELSE st

\* the loop of diffDependencySets; st holds the heap and the records so far
RECURSIVE DiffRefLoop(_, _, _, _, _)
DiffRefLoop(prev, curr, names, k, st) ==
    IF k > Len(names) THEN st
    ELSE DiffRefLoop(prev, curr, names, k + 1,
             DiffPush(names[k],
                      GetOrNewSet(prev, names[k], st.heap),
                      GetOrNewSet(curr, names[k], HeapAfterGet(prev, names[k], st.heap)),
                      [st EXCEPT !.heap = HeapAfterGet(curr, names[k],
                                              HeapAfterGet(prev, names[k], st.heap))]))

\* the maps by reference and the heap of two maps by value: one Set object per entry
InitDiffRefs(prevs, currs) ==
    /\ \E p \in prevs, c \in currs :
          /\ call = [fn |-> "diffDependencySets",
                     prev |-> [i \in 1..Len(p) |-> [name |-> p[i].name, ref |-> i]],
                     curr |-> [i \in 1..Len(c) |-> [name |-> c[i].name, ref |-> Len(p) + i]]]
          /\ heap = [i \in 1..(Len(p) + Len(c)) |->
                        IF i <= Len(p) THEN p[i].versions ELSE c[i - Len(p)].versions]
    /\ locals = [at |-> 0]
    /\ returned = NotReturned
    /\ messages = <<>>
    /\ comments = <<>>
    /\ metaCache = <<>>
    /\ requests = <<>>

\* diffDependencySets(prev, curr)
DiffRefs ==
    /\ call.fn = "diffDependencySets"
    /\ ~returned.done
    /\ \E st \in {DiffRefLoop(call.prev, call.curr,
                              Dedup([i \in 1..Len(call.prev) |-> call.prev[i].name]
                                    \o [i \in 1..Len(call.curr) |-> call.curr[i].name], {}),
                              1, [heap |-> heap, changes |-> <<>>])} :
          /\ heap' = st.heap
          /\ returned' = [done |-> TRUE, value |-> st.changes]
    /\ UNCHANGED <<lockVars, worldVars, call, locals, messages>>

\* after the call, the caller adds a version to, or deletes one from, a set of
\* a record
MutateRecord ==
    /\ call.fn = "diffDependencySets"
    /\ returned.done
    /\ \E k \in 1..Len(returned.value), v \in {"1.0.0", "2.0.0", "3.0.0"} :
          \E ref \in {returned.value[k].previous, returned.value[k].current} :
              \/ heap' = [heap EXCEPT ![ref] = @ \cup {v}]
              \/ heap' = [heap EXCEPT ![ref] = @ \ {v}]
    /\ UNCHANGED <<lockVars, worldVars, call, locals, returned, messages>>

NextDiffRefs == DiffRefs \/ MutateRecord

(***************************************************************************)
(* calculateTotalDependencySizeIncrease (src/unnamed/part_012).  The       *)
(* registry answers fetchPackageMetadata: null, metadata without           *)
(* dist.unpackedSize, or metadata with it.                                 *)
(***************************************************************************)

MaxVersions == 2    \* entries of newVersions and of removedVersions

\* the versions a run lists
VersionPool ==
    { [name |-> "package-a", version |-> "1.0.0"], [name |-> "package-a", version |-> "2.0.0"],
      [name |-> "package-b", version |-> "2.0.0"], [name |-> "package-c", version |-> "1.0.0"],
      [name |-> "package-d", version |-> "1.0.0"] }

\* what the registry holds: package-c has no unpackedSize, and a name@version
\* not listed here is unknown; trustedPublisher is _npmUser.trustedPublisher and
\* provenance is dist.attestations.provenance
Registry(packageKey) ==
    CASE packageKey = "package-a@1.0.0" ->
             [found |-> TRUE, sized |-> TRUE, unpackedSize |-> 1,
              trustedPublisher |-> TRUE, provenance |-> TRUE]
      [] packageKey = "package-a@2.0.0" ->
             [found |-> TRUE, sized |-> TRUE, unpackedSize |-> 2,
              trustedPublisher |-> FALSE, provenance |-> TRUE]
      [] packageKey = "package-b@1.0.0" ->
             [found |-> TRUE, sized |-> TRUE, unpackedSize |-> 3,
              trustedPublisher |-> FALSE, provenance |-> TRUE]
      [] packageKey = "package-b@2.0.0" ->
             [found |-> TRUE, sized |-> TRUE, unpackedSize |-> 4,
              trustedPublisher |-> FALSE, provenance |-> FALSE]
      [] packageKey = "package-c@1.0.0" ->
             [found |-> TRUE, sized |-> FALSE, unpackedSize |-> 0,
              trustedPublisher |-> TRUE, provenance |-> FALSE]
      [] OTHER -> [found |-> FALSE, sized |-> FALSE, unpackedSize |-> 0,
                   trustedPublisher |-> FALSE, provenance |-> FALSE]

\* `${dep.name}@${dep.version}`
PackageKey(dep) == dep.name \o "@" \o dep.version

\* an iteration that does not look at processedPackages: what the amended C16
\* rules out
SizeLoopBodyNoDedup(dep, sign, st) ==
    IF st.null THEN st
    ELSE IF ~Registry(PackageKey(dep)).found \/ ~Registry(PackageKey(dep)).sized
    THEN [st EXCEPT !.null = TRUE]
    ELSE [st EXCEPT !.totalSize = @ + sign * Registry(PackageKey(dep)).unpackedSize,
                    !.packageSizes = {p \in @ : p[1] # PackageKey(dep)}
                        \cup {<<PackageKey(dep), sign * Registry(PackageKey(dep)).unpackedSize>>},
                    !.processedPackages = @ \cup {PackageKey(dep)}]

\* one iteration of either loop; sign is 1 in the loop over newVersions and -1
\* in the loop over removedVersions; st.null: the call has returned null
SizeLoopBody(dep, sign, st) ==
    IF st.null THEN st
    ELSE IF PackageKey(dep) \in st.processedPackages THEN st
    ELSE IF ~Registry(PackageKey(dep)).found \/ ~Registry(PackageKey(dep)).sized
    THEN [st EXCEPT !.null = TRUE]
    ELSE [st EXCEPT !.totalSize = @ + sign * Registry(PackageKey(dep)).unpackedSize,
                    !.packageSizes = {p \in @ : p[1] # PackageKey(dep)}
                        \cup {<<PackageKey(dep), sign * Registry(PackageKey(dep)).unpackedSize>>},
                    !.processedPackages = @ \cup {PackageKey(dep)}]

RECURSIVE SizeLoop(_, _, _, _)
SizeLoop(versions, k, sign, st) ==
    IF k > Len(versions) THEN st
    ELSE SizeLoop(versions, k + 1, sign, SizeLoopBody(versions[k], sign, st))

\* the two loops, one after the other, over the same locals; packageSizes is the
\* Map as its set of (key, size) entries
calculateTotalDependencySizeIncrease(newVersions, removedVersions) ==
    SizeLoop(removedVersions, 1, -1,
             SizeLoop(newVersions, 1, 1,
                      [null |-> FALSE, totalSize |-> 0, processedPackages |-> {},
                       packageSizes |-> {}]))

\* await calculateTotalDependencySizeIncrease(newVersions, removedVersions)
CalculateSize ==
    /\ call.fn = "calculateTotalDependencySizeIncrease"
    /\ ~returned.done
    /\ returned' = [done |-> TRUE,
                    value |-> calculateTotalDependencySizeIncrease(call.newVersions,
                                                                   call.removedVersions)]
    /\ UNCHANGED <<lockVars, worldVars, call, locals, messages, heap>>

(***************************************************************************)
(* Trust levels (src/unnamed/part_012) and scanForProvenance               *)
(* (src/unnamed/part_003)                                                  *)
(***************************************************************************)

MaxStatuses == 3    \* statuses handed to getMinTrustLevel
MaxSetSize == 2     \* versions of one package in a dependency map

getProvenance(meta) ==
    IF meta.trustedPublisher THEN "trusted-with-provenance"
    ELSE IF meta.provenance THEN "provenance"
    ELSE "none"

getTrustLevel(status) ==
    CASE status = "trusted-with-provenance" -> 2
      [] status = "provenance" -> 1
      [] status = "none" -> 0
      [] OTHER -> 0

\* a loop that starts from the highest level instead of from null: what C18
\* rules out
RECURSIVE MinTrustLoopFromTrusted(_, _, _)
MinTrustLoopFromTrusted(statuses, k, result) ==
    IF k > Len(statuses)
    THEN (IF result.null THEN [level |-> 2, status |-> "trusted-with-provenance"]
          ELSE [level |-> result.level, status |-> result.status])
    ELSE MinTrustLoopFromTrusted(statuses, k + 1,
             IF getTrustLevel(statuses[k]) < (IF result.null THEN 2 ELSE result.level)
             THEN [null |-> FALSE, level |-> getTrustLevel(statuses[k]), status |-> statuses[k]]
             ELSE result)

\* the loop of getMinTrustLevel and the return after it; result.null: `result`
\* is still null
RECURSIVE MinTrustLoop(_, _, _)
MinTrustLoop(statuses, k, result) ==
    IF k > Len(statuses)
    THEN (IF result.null THEN [level |-> 0, status |-> "none"]
          ELSE [level |-> result.level, status |-> result.status])
    ELSE MinTrustLoop(statuses, k + 1,
             IF result.null \/ getTrustLevel(statuses[k]) < result.level
             THEN [null |-> FALSE, level |-> getTrustLevel(statuses[k]), status |-> statuses[k]]
             ELSE result)

getMinTrustLevel(statuses) ==
    MinTrustLoop(statuses, 1, [null |-> TRUE, level |-> 0, status |-> "none"])

\* the values of the Map getProvenanceForPackageVersions returns: one status for
\* each version the registry has metadata for.  The model keeps no insertion
\* order of a Set: one enumeration of the versions stands for it.
getProvenanceForPackageVersions(packageName, versions) ==
    LET known == {v \in versions : Registry(packageName \o "@" \o v).found}
        inOrder == CHOOSE q \in [1..Cardinality(known) -> known] :
                       \A v \in known : \E i \in DOMAIN q : q[i] = v
    IN  [k \in 1..Cardinality(known) |->
            getProvenance(Registry(packageName \o "@" \o inOrder[k]))]

\* a body that compares without the subset test and without the test for
\* missing metadata: what C17 rules out
ProvenanceLoopBodyUnguarded(packageName, currentVersionSet, base, provenanceRows) ==
    LET baseVersionSet == MapGetOrEmpty(base, packageName)
        minBaseTrust ==
            getMinTrustLevel(getProvenanceForPackageVersions(packageName, baseVersionSet))
        minCurrentTrust ==
            getMinTrustLevel(getProvenanceForPackageVersions(packageName, currentVersionSet))
    IN  IF ~MapHas(base, packageName) \/ baseVersionSet = {} THEN provenanceRows
        ELSE IF minCurrentTrust.level < minBaseTrust.level
        THEN Append(provenanceRows,
                    "| " \o packageName \o " | " \o minBaseTrust.status \o " | "
                    \o minCurrentTrust.status \o " |")
        ELSE provenanceRows

\* one iteration of the loop of scanForProvenance
ProvenanceLoopBody(packageName, currentVersionSet, base, provenanceRows) ==
    LET baseVersionSet == MapGetOrEmpty(base, packageName)
        baseProvenances == getProvenanceForPackageVersions(packageName, baseVersionSet)
        currentProvenances == getProvenanceForPackageVersions(packageName, currentVersionSet)
        minBaseTrust == getMinTrustLevel(baseProvenances)
        minCurrentTrust == getMinTrustLevel(currentProvenances)
    IN  IF ~MapHas(base, packageName) \/ baseVersionSet = {} THEN provenanceRows
        ELSE IF currentVersionSet \subseteq baseVersionSet THEN provenanceRows
        ELSE IF Len(baseProvenances) = 0 \/ Len(currentProvenances) = 0 THEN provenanceRows
        ELSE IF minCurrentTrust.level < minBaseTrust.level
        THEN Append(provenanceRows,
                    "| " \o packageName \o " | " \o minBaseTrust.status \o " | "
                    \o minCurrentTrust.status \o " |")
        ELSE provenanceRows

RECURSIVE ProvenanceLoop(_, _, _, _)
ProvenanceLoop(current, base, k, provenanceRows) ==
    IF k > Len(current) THEN provenanceRows
    ELSE ProvenanceLoop(current, base, k + 1,
             ProvenanceLoopBody(current[k].name, current[k].versions, base,
                                provenanceRows))

\* the text before the rows of the message, without its pictographs
ProvenanceHeading ==
    "## Package Trust Level Decreased\n\n> [!CAUTION]\n> Decreased trust levels may "
    \o "indicate a higher risk of supply chain attacks. Please review these changes "
    \o "carefully.\n\n| Package | Before | After |\n| --- | --- | --- |\n"

\* scanForProvenance(messages, currentDeps, baseDeps): the messages after it
scanForProvenance(msgs, current, base) ==
    IF Len(ProvenanceLoop(current, base, 1, <<>>)) > 0
    THEN Append(msgs, ProvenanceHeading
                      \o Join(ProvenanceLoop(current, base, 1, <<>>), "\n"))
    ELSE msgs

\* await scanForProvenance(messages, currentDeps, baseDeps)
ScanForProvenance ==
    /\ call.fn = "scanForProvenance"
    /\ ~returned.done
    /\ messages' = scanForProvenance(messages, call.currentDeps, call.baseDeps)
    /\ returned' = [done |-> TRUE, value |-> JUndefined]
    /\ UNCHANGED <<lockVars, worldVars, call, locals, heap>>

\* getMinTrustLevel(statuses)
GetMinTrustLevel ==
    /\ call.fn = "getMinTrustLevel"
    /\ ~returned.done
    /\ returned' = [done |-> TRUE, value |-> getMinTrustLevel(call.statuses)]
    /\ UNCHANGED <<lockVars, worldVars, call, locals, messages, heap>>

(***************************************************************************)
(* scanForDuplicates (src/src/checks/duplicates.ts).  The lockfile is what *)
(* traverse(lockfile.root, visitor) hands to the visitor: a sequence of    *)
(* visits, each a node and the path to it (path.defined: not undefined).   *)
(***************************************************************************)

getLsCommand(path, packageName) ==
    IF EndsWith(path, "package-lock.json") THEN "npm ls " \o packageName
    ELSE IF EndsWith(path, "pnpm-lock.yaml") THEN "pnpm -r why " \o packageName
    ELSE IF EndsWith(path, "yarn.lock") THEN "yarn why " \o packageName
    ELSE IF EndsWith(path, "bun.lock") THEN "bun pm ls " \o packageName
    ELSE ""

\* visitorFn over the visits from k on: parentPaths as its entries (key, path),
\* the first path of a key kept
RECURSIVE computeParentPaths(_, _, _, _, _)
computeParentPaths(visits, k, duplicateDependencyNames, dependencyMap, parentPaths) ==
    IF k > Len(visits) THEN parentPaths
    ELSE computeParentPaths(visits, k + 1, duplicateDependencyNames, dependencyMap,
             IF \/ visits[k].name \notin duplicateDependencyNames
                \/ ~visits[k].path.defined
                \/ ~MapHas(dependencyMap, visits[k].name)
                \/ \E e \in parentPaths : e[1] = visits[k].name \o "@" \o visits[k].version
             THEN parentPaths
             ELSE parentPaths \cup {<<visits[k].name \o "@" \o visits[k].version,
                                      visits[k].path.nodes>>})

\* the loop that wraps nestedList into displayPath[i], from i down to 0
RECURSIVE NestedList(_, _, _)
NestedList(displayPath, i, nestedList) ==
    IF i < 0 THEN nestedList
    ELSE NestedList(displayPath, i - 1,
                    "<li>" \o displayPath[i + 1] \o "<ul>" \o nestedList \o "</ul></li>")

\* a row for every package of the map, duplicated or not: what C19 rules out
DuplicateNamesAll(dependencyMap, threshold) ==
    [k \in 1..Len(dependencyMap) |-> dependencyMap[k].name]

\* the first loop of scanForDuplicates: duplicateDependencyNames in the order
\* the names were added
DuplicateNames(dependencyMap, threshold) ==
    LET over == SelectSeq(dependencyMap, LAMBDA e : Cardinality(e.versions) > threshold)
    IN  [k \in 1..Len(over) |-> over[k].name]

\* the row pushed for one duplicated package; Array.from(versionSet).sort()
\* orders the versions of the model as they are listed here; DetailsLine is the
\* entry of detailsLines for one version
DuplicateRow(name, versionSet, parentPaths) ==
    LET versions == SelectSeq(<<"1.0.0", "2.0.0", "3.0.0">>, LAMBDA v : v \in versionSet)
        DetailsLine(version) ==
            LET found == {e \in parentPaths : e[1] = name \o "@" \o version}
                pathArray == (CHOOSE e \in found : TRUE)[2]
                displayPath ==
                    IF Len(pathArray) + 1 > 6
                    THEN SubSeq(pathArray, 1, 2) \o <<"...">>
                         \o SubSeq(pathArray, Len(pathArray) - 1, Len(pathArray))
                    ELSE pathArray
            IN  IF found # {} /\ Len(pathArray) > 0
                THEN "<ul>"
                     \o NestedList(displayPath, Len(displayPath) - 1,
                                   "<li>**" \o name \o "@" \o version \o "**</li>")
                     \o "</ul>"
                ELSE "**" \o name \o "@" \o version \o "**"
    IN  "| " \o name \o " | <details><summary>" \o ToString(Cardinality(versionSet))
        \o " version" \o (IF Cardinality(versionSet) > 1 THEN "s" ELSE "")
        \o "</summary><br>"
        \o Join([k \in 1..Len(versions) |-> DetailsLine(versions[k])], "<br>")
        \o "<br></details> |"

\* scanForDuplicates(messages, threshold, dependencyMap, lockfilePath, lockfile):
\* the messages after it; the text is without its pictographs and its backquotes
scanForDuplicates(msgs, threshold, dependencyMap, path, visits) ==
    LET names == DuplicateNames(dependencyMap, threshold)
        parentPaths == computeParentPaths(visits, 1, {names[k] : k \in 1..Len(names)},
                                          dependencyMap, {})
        duplicateRows == [k \in 1..Len(names) |->
                             DuplicateRow(names[k], MapGetOrEmpty(dependencyMap, names[k]),
                                          parentPaths)]
    IN  IF Len(names) = 0 THEN msgs
        ELSE IF Len(duplicateRows) > 0
        THEN Append(msgs,
                 "## Duplicate Dependencies (found: " \o ToString(Len(duplicateRows))
                 \o ", threshold: " \o ToString(threshold) \o ")\n\n"
                 \o "| Package | Versions |\n| --- | --- |\n"
                 \o Join(duplicateRows, "\n")
                 \o (IF getLsCommand(path, "example-package") # ""
                     THEN "\n\nTo find out what depends on a specific package, run: "
                          \o getLsCommand(path, "example-package")
                     ELSE ""))
        ELSE msgs

\* scanForDuplicates(messages, duplicateThreshold, currentDeps, lockfilePath,
\* parsedCurrentLock)
ScanForDuplicates ==
    /\ call.fn = "scanForDuplicates"
    /\ ~returned.done
    /\ messages' = scanForDuplicates(messages, call.threshold, call.dependencyMap,
                                     call.lockfilePath, call.lockfile)
    /\ returned' = [done |-> TRUE, value |-> JUndefined]
    /\ UNCHANGED <<lockVars, worldVars, call, locals, heap>>

(***************************************************************************)
(* getBaseRef (src/unnamed/part_002): inputBaseRef is what                 *)
(* core.getInput('base-ref') returns, "" when the input is not set;        *)
(* pullRequest is github.context.payload.pull_request.                     *)
(***************************************************************************)

\* the input returned as it is, with or without a '/': what C20 rules out
getBaseRefUnprefixed(inputBaseRef, pullRequest) ==
    IF inputBaseRef # "" THEN inputBaseRef
    ELSE IF pullRequest.defined /\ pullRequest.base.ref # ""
    THEN "origin/" \o pullRequest.base.ref
    ELSE "origin/main"

getBaseRef(inputBaseRef, pullRequest) ==
    IF inputBaseRef # ""
    THEN (IF Includes(inputBaseRef, "/") THEN inputBaseRef ELSE "origin/" \o inputBaseRef)
    ELSE IF pullRequest.defined /\ pullRequest.base.ref # ""
    THEN "origin/" \o pullRequest.base.ref
    ELSE "origin/main"

\* const baseRef = getBaseRef()
GetBaseRef ==
    /\ call.fn = "getBaseRef"
    /\ ~returned.done
    /\ returned' = [done |-> TRUE, value |-> getBaseRef(call.input, call.pull_request)]
    /\ UNCHANGED <<lockVars, worldVars, call, locals, messages, heap>>

(***************************************************************************)
(* run() of src/src/main.ts from line 138 on, for the runs of the action   *)
(* on one pull request.  call.runs[r] holds the inputs of run r and what   *)
(* the checks of lines 140-162 and scanForReplacements append for it;      *)
(* call.files maps a glob pattern to the packs getPacksFromPattern reads;  *)
(* call.login is the identity the github-token posts as; locals[r] and     *)
(* messages[r] are the local variables of run r.  A listing of the         *)
(* comments fits in one page of 100.                                       *)
(***************************************************************************)

COMMENT_TAG == "<!-- dependency-diff-action -->"

\* formatBytes for |bytes| < 1000, where i is 0 and byteValue is absBytes
formatBytes(bytes) == IF bytes = 0 THEN "0 B" ELSE ToString(bytes) \o " B"

\* scanForBundleSize with comparePackSizes; the size null is -1; the text is
\* without its pictographs
scanForBundleSize(msgs, basePacks, sourcePacks, threshold) ==
    LET SizeIn(packs, name) ==
            IF \E k \in 1..Len(packs) : packs[k].packageName = name
            THEN packs[Greatest({k \in 1..Len(packs) : packs[k].packageName = name}, 0)].size
            ELSE -1
        allPackNames == Dedup([k \in 1..Len(basePacks) |-> basePacks[k].packageName]
                              \o [k \in 1..Len(sourcePacks) |-> sourcePacks[k].packageName],
                              {})
        Change(name) ==
            LET baseSize == SizeIn(basePacks, name)
                sourceSize == SizeIn(sourcePacks, name)
                sizeChange == (IF sourceSize = -1 THEN 0 ELSE sourceSize)
                              - (IF baseSize = -1 THEN 0 ELSE baseSize)
            IN  [name |-> name, baseSize |-> baseSize, sourceSize |-> sourceSize,
                 sizeChange |-> sizeChange, exceedsThreshold |-> sizeChange >= threshold]
        RECURSIVE Sorted(_)
        Sorted(cs) ==
            IF Len(cs) = 0 THEN <<>>
            ELSE LET first == Least({k \in 1..Len(cs) :
                                        \A j \in 1..Len(cs) :
                                            cs[j].sizeChange <= cs[k].sizeChange}, 0)
                 IN  <<cs[first]>>
                     \o Sorted(SubSeq(cs, 1, first - 1) \o SubSeq(cs, first + 1, Len(cs)))
        packChanges == Sorted([k \in 1..Len(allPackNames) |-> Change(allPackNames[k])])
        packWarnings == SelectSeq(packChanges,
                                  LAMBDA c : c.exceedsThreshold /\ c.sizeChange > 0)
        Row(c) == "| " \o c.name \o " | "
                  \o (IF c.baseSize > 0 THEN formatBytes(c.baseSize) ELSE "New") \o " | "
                  \o (IF c.sourceSize > 0 THEN formatBytes(c.sourceSize) ELSE "Removed")
                  \o " | " \o formatBytes(c.sizeChange) \o " |"
    IN  IF Len(basePacks) = 0 /\ Len(sourcePacks) = 0 THEN msgs
        ELSE IF Len(packWarnings) > 0
        THEN Append(msgs,
                 "## Package Size Increase\n\n"
                 \o "These packages exceed the size increase threshold of "
                 \o formatBytes(threshold) \o ":\n\n"
                 \o "| Package | Base Size | Source Size | Size Change |\n"
                 \o "| --- | --- | --- | --- |\n"
                 \o Join([k \in 1..Len(packWarnings) |-> Row(packWarnings[k])], "\n"))
        ELSE msgs

\* lines 138-162: run r starts, and its checks fill messages; runs that do not
\* overlap start one after the other
RunChecks(r) ==
    /\ locals[r].pc = "checks"
    /\ call.overlap \/ \A q \in 1..(r - 1) : locals[q].pc = "done"
    /\ messages' = [messages EXCEPT ![r] = call.runs[r].checks]
    /\ locals' = [locals EXCEPT ![r].pc = "packs"]
    /\ UNCHANGED <<lockVars, worldVars, call, returned, heap>>

\* a pack analysis that runs when either pattern is set: what C21 rules out
RunPacksEither(r) ==
    /\ locals[r].pc = "packs"
    /\ IF call.runs[r].basePackages # "" \/ call.runs[r].sourcePackages # ""
       THEN /\ requests' = requests
                   \o <<[run |-> r, op |-> "getPacksFromPattern",
                         pattern |-> call.runs[r].basePackages],
                        [run |-> r, op |-> "getPacksFromPattern",
                         pattern |-> call.runs[r].sourcePackages]>>
            /\ messages' = [messages EXCEPT ![r] =
                               scanForBundleSize(@, call.files[call.runs[r].basePackages],
                                                 call.files[call.runs[r].sourcePackages],
                                                 call.packSizeThreshold)]
       ELSE UNCHANGED <<requests, messages>>
    /\ locals' = [locals EXCEPT ![r].pc = "replacements"]
    /\ UNCHANGED <<lockVars, comments, metaCache, call, returned, heap>>

\* lines 164-189: the pack analysis
RunPacks(r) ==
    /\ locals[r].pc = "packs"
    /\ IF call.runs[r].basePackages # "" /\ call.runs[r].sourcePackages # ""
       THEN /\ requests' = requests
                   \o <<[run |-> r, op |-> "getPacksFromPattern",
                         pattern |-> call.runs[r].basePackages],
                        [run |-> r, op |-> "getPacksFromPattern",
                         pattern |-> call.runs[r].sourcePackages]>>
            /\ messages' = [messages EXCEPT ![r] =
                               scanForBundleSize(@, call.files[call.runs[r].basePackages],
                                                 call.files[call.runs[r].sourcePackages],
                                                 call.packSizeThreshold)]
       ELSE UNCHANGED <<requests, messages>>
    /\ locals' = [locals EXCEPT ![r].pc = "replacements"]
    /\ UNCHANGED <<lockVars, comments, metaCache, call, returned, heap>>

\* lines 191-211: detect-replacements needs both package.json files
RunReplacements(r) ==
    /\ locals[r].pc = "replacements"
    /\ IF ~call.runs[r].detectReplacements
       THEN /\ locals' = [locals EXCEPT ![r].pc = "comment"]
            /\ UNCHANGED messages
       ELSE IF ~call.runs[r].packageJsons
       THEN /\ locals' = [locals EXCEPT ![r].pc = "done", ![r].failed = TRUE]
            /\ UNCHANGED messages
       ELSE /\ locals' = [locals EXCEPT ![r].pc = "comment"]
            /\ messages' = [messages EXCEPT ![r] = @ \o call.runs[r].replacements]
    /\ UNCHANGED <<lockVars, worldVars, call, returned, heap>>

\* lines 213-243: no message, no comment; else the listing and the search for
\* the comment of the action (existingCommentId 0: undefined)
RunList(r) ==
    /\ locals[r].pc = "comment"
    /\ IF Len(messages[r]) = 0
       THEN /\ locals' = [locals EXCEPT ![r].pc = "done"]
            /\ UNCHANGED requests
       ELSE /\ requests' = Append(requests, [run |-> r, op |-> "listComments"])
            /\ locals' = [locals EXCEPT
                   ![r].pc = "write",
                   ![r].existingCommentId =
                       IF \E k \in 1..Len(comments) :
                              /\ comments[k].login = "github-actions[bot]"
                              /\ Includes(comments[k].body, COMMENT_TAG)
                       THEN comments[Least({k \in 1..Len(comments) :
                                               /\ comments[k].login = "github-actions[bot]"
                                               /\ Includes(comments[k].body, COMMENT_TAG)},
                                           0)].id
                       ELSE 0]
    /\ UNCHANGED <<lockVars, comments, metaCache, call, returned, messages, heap>>

\* lines 245-265: updateComment or createComment with finalCommentBody
RunWrite(r) ==
    /\ locals[r].pc = "write"
    /\ IF locals[r].existingCommentId # 0
       THEN /\ requests' = Append(requests, [run |-> r, op |-> "updateComment",
                                             comment_id |-> locals[r].existingCommentId])
            /\ comments' = [k \in 1..Len(comments) |->
                               IF comments[k].id = locals[r].existingCommentId
                               THEN [comments[k] EXCEPT
                                        !.body = COMMENT_TAG \o "\n"
                                                 \o Join(messages[r], "\n\n")]
                               ELSE comments[k]]
       ELSE /\ requests' = Append(requests, [run |-> r, op |-> "createComment"])
            /\ comments' = Append(comments,
                                  [id |-> Len(comments) + 1, login |-> call.login,
                                   body |-> COMMENT_TAG \o "\n"
                                            \o Join(messages[r], "\n\n")])
    /\ locals' = [locals EXCEPT ![r].pc = "done"]
    /\ UNCHANGED <<lockVars, metaCache, call, returned, messages, heap>>

NextRuns ==
    \/ \E r \in 1..Len(call.runs) : RunChecks(r)
    \/ \E r \in 1..Len(call.runs) : RunPacks(r)
    \/ \E r \in 1..Len(call.runs) : RunReplacements(r)
    \/ \E r \in 1..Len(call.runs) : RunList(r)
    \/ \E r \in 1..Len(call.runs) : RunWrite(r)


(***************************************************************************)
(* scanForDependencyCount (src/src/checks/dependency-count.ts)             *)
(***************************************************************************)

\* Array.from(deps.values()).reduce((sum, versions) => sum + versions.size, 0)
RECURSIVE DepCount(_)
DepCount(deps) ==
    IF Len(deps) = 0 THEN 0
    ELSE Cardinality(deps[1].versions) + DepCount(Tail(deps))

\* scanForDependencyCount(messages, threshold, currentDeps, baseDeps): the
\* messages after it; the warning is without its pictograph, with -> for its arrow
scanForDependencyCount(msgs, threshold, current, base) ==
    LET currentDepCount == DepCount(current)
        baseDepCount == DepCount(base)
        depIncrease == currentDepCount - baseDepCount
    IN  IF depIncrease >= threshold
        THEN Append(msgs,
                 "## Dependency Count\n\nThis PR adds " \o ToString(depIncrease)
                     \o " new dependencies (" \o ToString(baseDepCount) \o " -> "
                     \o ToString(currentDepCount) \o "), which exceeds the threshold of "
                     \o ToString(threshold) \o ".")
        ELSE msgs

ScanForDependencyCount ==
    /\ call.fn = "scanForDependencyCount"
    /\ ~returned.done
    /\ messages' = scanForDependencyCount(messages, call.threshold, call.currentDeps,
                                          call.baseDeps)
    /\ returned' = [done |-> TRUE, value |-> JUndefined]
    /\ UNCHANGED <<lockVars, worldVars, call, locals, heap>>

(***************************************************************************)
(* fetchPackageMetadata and metaCache (src/src/npm.ts)                     *)
(*                                                                         *)
(* call.keys[c] is the cache key of the c-th call; locals[c] is where that *)
(* call stands, the promise it awaits (an index into requests, 0 for none) *)
(* and what it returned. requests holds the requests sent to the registry, *)
(* in the order they were sent. A result is null or the metadata that one  *)
(* response carried.                                                       *)
(***************************************************************************)

Null == [ok |-> FALSE, from |-> 0]

NotCached == [t |-> "undefined", q |-> 0, meta |-> Null]

\* if (cached): a promise is truthy, metadata is truthy, null and undefined are not
IsCached(cached) == cached.t = "promise" \/ (cached.t = "value" /\ cached.meta.ok)

\* the call without metaCache.set(cacheKey, meta) before its await
FetchCallUncached(c) ==
    /\ call.fn = "fetchPackageMetadata"
    /\ locals[c].pc = "idle"
    /\ requests' = Append(requests, [op |-> "fetch", key |-> call.keys[c],
                                     pending |-> TRUE, result |-> Null])
    /\ locals' = [locals EXCEPT ![c] = [pc |-> "await", promise |-> Len(requests) + 1,
                                        own |-> TRUE, result |-> Null]]
    /\ UNCHANGED <<lockVars, call, returned, messages, heap, comments, metaCache>>

\* fetchPackageMetadata up to its await: the cached promise or value is returned,
\* or else the request is sent and its promise is stored
FetchCall(c) ==
    /\ call.fn = "fetchPackageMetadata"
    /\ locals[c].pc = "idle"
    /\ LET cacheKey == call.keys[c]
           cached == metaCache[cacheKey]
       IN  IF IsCached(cached)
           THEN /\ locals' = [locals EXCEPT ![c] =
                                IF cached.t = "value"
                                THEN [pc |-> "done", promise |-> 0, own |-> FALSE,
                                      result |-> cached.meta]
                                ELSE [pc |-> "shared", promise |-> cached.q, own |-> FALSE,
                                      result |-> Null]]
                /\ UNCHANGED <<metaCache, requests>>
           ELSE /\ requests' = Append(requests, [op |-> "fetch", key |-> cacheKey,
                                                 pending |-> TRUE, result |-> Null])
                /\ metaCache' = [metaCache EXCEPT ![cacheKey] =
                                   [t |-> "promise", q |-> Len(requests) + 1, meta |-> Null]]
                /\ locals' = [locals EXCEPT ![c] =
                                [pc |-> "await", promise |-> Len(requests) + 1,
                                 own |-> TRUE, result |-> Null]]
    /\ UNCHANGED <<lockVars, call, returned, messages, heap, comments>>

\* fetchPackageMetadataImmediate settles: the metadata of the response, or null
\* when the response is not ok or the fetch threw
Respond(q, ok) ==
    /\ call.fn = "fetchPackageMetadata"
    /\ requests[q].pending
    /\ requests' = [requests EXCEPT ![q] =
                      [@ EXCEPT !.pending = FALSE,
                                !.result = IF ok THEN [ok |-> TRUE, from |-> q] ELSE Null]]
    /\ UNCHANGED <<lockVars, callVars, comments, metaCache>>

\* the call that sent the request continues after its await: the result replaces
\* the promise in the cache and is returned
Resume(c) ==
    /\ call.fn = "fetchPackageMetadata"
    /\ locals[c].pc = "await"
    /\ ~requests[locals[c].promise].pending
    /\ metaCache' = [metaCache EXCEPT ![call.keys[c]] =
                       [t |-> "value", q |-> 0, meta |-> requests[locals[c].promise].result]]
    /\ locals' = [locals EXCEPT ![c] = [@ EXCEPT !.pc = "done",
                                          !.result = requests[locals[c].promise].result]]
    /\ UNCHANGED <<lockVars, call, returned, messages, heap, comments, requests>>

\* a call that returned the cached promise settles with it
ResumeShared(c) ==
    /\ call.fn = "fetchPackageMetadata"
    /\ locals[c].pc = "shared"
    /\ ~requests[locals[c].promise].pending
    /\ locals' = [locals EXCEPT ![c] = [@ EXCEPT !.pc = "done",
                                          !.result = requests[locals[c].promise].result]]
    /\ UNCHANGED <<lockVars, call, returned, messages, heap, worldVars>>

NextFetch ==
    \/ \E c \in 1..Len(call.keys) : FetchCall(c)
    \/ \E q \in 1..Len(requests), ok \in BOOLEAN : Respond(q, ok)
    \/ \E c \in 1..Len(call.keys) : Resume(c)
    \/ \E c \in 1..Len(call.keys) : ResumeShared(c)

(***************************************************************************)
(* The outer scan loops of parseYarnV1Lock and parseYarnBerryLock, one     *)
(* iteration at a time: locals.at is the line index i, heap is result.     *)
(***************************************************************************)

\* one iteration of the outer loop of parseYarnV1Lock at index i: a line that
\* starts no block is passed, a block is read to the end of its body
YarnV1Iteration(lines, i, result) ==
    IF \/ lines[i + 1] = "" \/ IsSpace(CharAt(lines[i + 1], 0))
       \/ ~EndsWith(TrimEnd(lines[i + 1]), ":")
    THEN [i |-> i + 1, result |-> result]
    ELSE LET j == YarnV1HeaderEnd(lines, i)
             body == YarnV1Body(lines, j, "")
         IN  [i |-> body.i, result |-> YarnV1Block(lines, i, j, body, result)]

\* one iteration of the outer loop of parseYarnBerryLock at index i
YarnBerryIteration(lines, i, result) ==
    IF \/ lines[i + 1] = "" \/ StartsWith(TrimStart(lines[i + 1]), "#")
       \/ (~StartsWith(lines[i + 1], "\"") /\ ~StartsWith(lines[i + 1], "'"))
       \/ ~EndsWith(TrimEnd(lines[i + 1]), ":")
    THEN [i |-> i + 1, result |-> result]
    ELSE LET body == YarnBerryBody(lines, i + 1, "")
         IN  [i |-> body.i, result |-> YarnBerryBlock(lines[i + 1], body, result)]

\* while (i < lines.length) { ... }: one iteration
ScanStep ==
    /\ call.fn \in {"parseYarnV1Lock", "parseYarnBerryLock"}
    /\ locals.at < Len(SplitLines(call.content))
    /\ LET next == IF call.fn = "parseYarnV1Lock"
                   THEN YarnV1Iteration(SplitLines(call.content), locals.at, heap)
                   ELSE YarnBerryIteration(SplitLines(call.content), locals.at, heap)
       IN  /\ locals' = [at |-> next.i]
           /\ heap' = next.result
    /\ UNCHANGED <<lockVars, worldVars, call, returned, messages>>
(***************************************************************************)
(* The maps under construction                                             *)
(***************************************************************************)

\* a lockfile of each dialect is parsed, and a parsed lockfile is computed
SpecBuild ==
    /\ \/ /\ \/ InitLock({"package-lock.json"}, {""},
                         NpmBaseTexts \cup {JsonText(d) : d \in ShapeDocs})
             \/ InitLock({"pnpm-lock.yaml"}, {PnpmPreamble}, PnpmKeyTexts)
             \/ InitLock({"yarn.lock"}, {YarnV1Preamble},
                         YarnV1Texts \cup {YarnBerryPreamble \o t :
                                              t \in TextsUpTo(YarnBerryBlockPool, MaxBlocks)})
             \/ InitLock({"bun.lock"}, {"{}"}, BunTexts \cup {JsonText(d) : d \in ShapeDocs})
          /\ InitCompute({[packages |-> <<>>]})
       \/ /\ InitLock({"yarn.lock"}, {YarnV1Preamble},
                       {YarnV1Preamble \o "foo@^1.0.0:\n  version \"1.0.0\"\n  resolved \"u\"\n\n"
                                       \o "\"@s/bar@^2.0.0\":\n  version \"2.0.0\"\n\n"})
          /\ InitCompute(ParsedLockFiles)
    /\ [][NextBuild]_vars

\* each key is a non-empty name that maps to a non-empty set of non-empty versions
WellFormed(map) ==
    \A i \in 1..Len(map) :
        /\ map[i].name # ""
        /\ map[i].versions # {}
        /\ "" \notin map[i].versions

\* the maps a loop over the members of `packages` holds after 0, 1, ... iterations
NpmBuildPoints(packages) ==
    {NpmLoop(packages, SubSeq(Keys(packages), 1, j), 1, EmptyMap) :
        j \in 0..Len(Keys(packages))}

BunBuildPoints(pkgs) ==
    IF pkgs.t = "arr"
    THEN {BunArrayLoop([pkgs EXCEPT !.kids = SubSeq(pkgs.kids, 1, j)], 1, EmptyMap) :
              j \in 0..Len(pkgs.kids)}
    ELSE IF pkgs.t = "obj"
    THEN {BunObjectLoop(pkgs, SubSeq(Keys(pkgs), 1, j), 1, EmptyMap) :
              j \in 0..Len(Keys(pkgs))}
    ELSE {EmptyMap}

\* the maps a parser holds on its way through a text: for a dialect of lines,
\* the maps it has built when it has read the first j lines
LineBuildPoints(dialect, lines) ==
    CASE dialect = "pnpm" ->
           {PnpmScan(SubSeq(lines, 1, j), 0, FALSE, EmptyMap) : j \in 0..Len(lines)}
      [] dialect = "yarn-classic" ->
           {YarnV1Scan(SubSeq(lines, 1, j), 0, EmptyMap) : j \in 0..Len(lines)}
      [] dialect = "yarn-berry" ->
           {YarnBerryScan(SubSeq(lines, 1, j), 0, EmptyMap) : j \in 0..Len(lines)}

JsonBuildPoints(dialect, parsed) ==
    IF ~(parsed.ok /\ parsed.value.t = "obj" /\ Truthy(Get(parsed.value, "packages")))
    THEN {EmptyMap}
    ELSE IF dialect = "npm" THEN NpmBuildPoints(Get(parsed.value, "packages"))
    ELSE BunBuildPoints(Get(parsed.value, "packages"))

BuildPoints(dialect, content) ==
    CASE dialect = "npm" -> JsonBuildPoints(dialect, JSONParse(content))
      [] dialect = "bun" -> JsonBuildPoints(dialect, BunParseJson(content))
      [] dialect \in {"pnpm", "yarn-classic", "yarn-berry"} ->
           LineBuildPoints(dialect, SplitLines(content))
      [] OTHER -> {EmptyMap}

\* the packages read so far that have a name and a version
NamedAndVersioned(packages, n) ==
    {<<packages[k].name, packages[k].version>> :
        k \in {h \in 1..n : packages[h].name # "" /\ packages[h].version # ""}}

\* C11: every map a dialect parser or computeDependencyVersions builds is, at
\* every point of the build and in the result, a map whose keys are non-empty
\* names, each with a non-empty set of non-empty versions; an entry that lacks a
\* name or a version is skipped and inserts nothing.  The points of a parser's
\* build are a function of the text: they are read off when the text has been
\* parsed.
C11_VersionsSetInvariant ==
    /\ pc = {"parseCurrent"} =>
           \A m \in BuildPoints(currentDeps.by, currentPackageLock) \cup {currentDeps.map} :
               WellFormed(m)
    /\ WellFormed(baseDeps.map)
    /\ WellFormed(locals.result)
    /\ Pairs(locals.result) = NamedAndVersioned(call.lockFile.packages, locals.at)
    /\ returned.done => returned.value = locals.result

\* a text of two blocks is parsed into two names, and a parsed lockfile whose
\* second package has no name and whose third has no version is computed
C11_Witness ==
    /\ pc = {"parseCurrent"}
    /\ Len(currentDeps.map) = 2
    /\ currentDeps.map \in BuildPoints(currentDeps.by, currentPackageLock)
    /\ returned.done
    /\ Len(call.lockFile.packages) = 3
    /\ call.lockFile.packages[2].name = "" /\ call.lockFile.packages[2].version # ""
    /\ call.lockFile.packages[3].name # "" /\ call.lockFile.packages[3].version = ""
    /\ returned.value = <<[name |-> call.lockFile.packages[1].name,
                           versions |-> {call.lockFile.packages[1].version}]>>

(***************************************************************************)
(* Malformed JSON                                                          *)
(***************************************************************************)

\* a text that is a JSON document, white space around it aside
ValidJson(text) == \E p \in JsonTexts : p[1] = Trim(text)

\* the text without its line comments
WithoutLineComments(text) ==
    Join([k \in 1..Len(SplitLines(text)) |-> StripLineComment(SplitLines(text)[k])], "\n")

\* a text neither parseNpmLock nor parseBunLock can read as JSON
Malformed(dialect, text) ==
    \/ dialect = "npm" /\ ~ValidJson(text)
    \/ dialect = "bun" /\ ~ValidJson(text) /\ ~ValidJson(WithoutLineComments(text))

\* C12: parseNpmLock on a text that is not valid JSON, and parseBunLock on a text
\* that is not valid JSON as given nor after its line comments are stripped,
\* return an empty map and do not throw.
C12_MalformedJsonYieldsEmptyMap ==
    /\ ("parseCurrent" \in pc /\ Malformed(currentDeps.by, currentPackageLock)) =>
           (~currentDeps.threw /\ currentDeps.map = EmptyMap)
    /\ ("parseBase" \in pc /\ Malformed(baseDeps.by, basePackageLock)) =>
           (~baseDeps.threw /\ baseDeps.map = EmptyMap)

\* a bun.lock whose comment line is stripped by the retry and whose text is
\* still not JSON, and at the base a yarn text under the same name
C12_Witness ==
    /\ {"parseCurrent", "parseBase"} \subseteq pc
    /\ lockfilePath = "bun.lock"
    /\ currentPackageLock = "// bun lockfile\n{ \"packages\": {}, }\n"
    /\ WithoutLineComments(currentPackageLock) = "\n{ \"packages\": {}, }\n"
    /\ Includes(basePackageLock, "yarn lockfile v1")
    /\ currentDeps.map = EmptyMap /\ baseDeps.map = EmptyMap

(***************************************************************************)
(* Ownership of the sets of a diff record                                  *)
(***************************************************************************)

SpecDiffRefs ==
    /\ InitLock({""}, {""}, {""})
    /\ InitDiffRefs(DiffMaps, DiffMaps)
    /\ [][NextDiffRefs]_vars

\* the content of a VersionsSet held by reference: the versions of each name
ContentOf(map, h) == [i \in 1..Len(map) |-> [name |-> map[i].name, versions |-> h[map[i].ref]]]

\* C13: the sets of the records diffDependencySets returns are newly allocated
\* and share nothing with its inputs: adding or removing a version in a record's
\* `previous` or `current` set after the call leaves both input maps unchanged.
C13_RecordSetsShareNothingWithInputs ==
    [][returned.done =>
          /\ ContentOf(call.prev, heap') = ContentOf(call.prev, heap)
          /\ ContentOf(call.curr, heap') = ContentOf(call.curr, heap)]_vars

(***************************************************************************)
(* Symmetry of the diff                                                    *)
(***************************************************************************)

\* the records of a diff, as a set
RecordsOf(found) == {found[k] : k \in 1..Len(found)}

\* the record with its two sides exchanged
Mirrored(r) == [name |-> r.name, previous |-> r.current, current |-> r.previous]

\* C14: diffDependencySets is symmetric: every record (name, previous, current)
\* of diffDependencySets(A, B) has the counterpart (name, current, previous) in
\* diffDependencySets(B, A), and both results hold the same names.
C14_DiffIsSymmetric ==
    "diff" \in pc =>
        /\ \A r \in RecordsOf(changes) :
               Mirrored(r) \in RecordsOf(diffDependencySets(currentDeps.map, baseDeps.map))
        /\ {r.name : r \in RecordsOf(changes)}
             = {r.name : r \in RecordsOf(diffDependencySets(currentDeps.map, baseDeps.map))}

\* the base holds foo and @s/bar, the current text holds foo at two versions:
\* one name grew, one name was removed
C14_Witness ==
    /\ "diff" \in pc
    /\ RecordsOf(changes)
         = { [name |-> "foo", previous |-> {"2.0.0"}, current |-> {"1.0.0", "2.0.0"}],
             [name |-> "@s/bar", previous |-> {"2.0.0"}, current |-> {}] }
    /\ RecordsOf(diffDependencySets(currentDeps.map, baseDeps.map))
         = { [name |-> "foo", previous |-> {"1.0.0", "2.0.0"}, current |-> {"2.0.0"}],
             [name |-> "@s/bar", previous |-> {}, current |-> {"2.0.0"}] }

(***************************************************************************)
(* The size of the dependencies                                            *)
(***************************************************************************)

SpecSize ==
    /\ InitLock({""}, {""}, {""})
    /\ call \in {[fn |-> "calculateTotalDependencySizeIncrease",
                  newVersions |-> n, removedVersions |-> r] :
                     n \in SeqsUpTo(VersionPool, MaxVersions),
                     r \in SeqsUpTo(VersionPool, MaxVersions)}
    /\ locals = [at |-> 0]
    /\ returned = NotReturned
    /\ messages = <<>>
    /\ heap = <<>>
    /\ comments = <<>>
    /\ metaCache = <<>>
    /\ requests = <<>>
    /\ [][CalculateSize]_vars

\* the keys a list names, and the sum of the sizes the registry holds for keys
KeysOf(versions) == {PackageKey(versions[k]) : k \in 1..Len(versions)}

RECURSIVE SizeSum(_)
SizeSum(keys) ==
    IF keys = {} THEN 0
    ELSE (LET k == CHOOSE x \in keys : TRUE
          IN  Registry(k).unpackedSize + SizeSum(keys \ {k}))

Sized(keys) == {k \in keys : Registry(k).sized}

\* C15: when the metadata of a listed version has no unpackedSize, that version
\* is skipped: packageSizes records it, it adds nothing to the total, and the
\* call still returns the total of the other versions instead of null.
C15_MissingSizeIsSkipped ==
    (/\ returned.done
     /\ \A k \in KeysOf(call.newVersions) \cup KeysOf(call.removedVersions) : Registry(k).found
     /\ \E k \in KeysOf(call.newVersions) \cup KeysOf(call.removedVersions) : ~Registry(k).sized
     /\ KeysOf(call.newVersions) \cap KeysOf(call.removedVersions) = {}) =>
        /\ ~returned.value.null
        /\ returned.value.totalSize
             = SizeSum(Sized(KeysOf(call.newVersions)))
               - SizeSum(Sized(KeysOf(call.removedVersions)))
        /\ KeysOf(call.newVersions) \cup KeysOf(call.removedVersions)
             = {p[1] : p \in returned.value.packageSizes}

\* the sum of the values of a Map given as its entries
RECURSIVE ValueSum(_)
ValueSum(entries) ==
    IF entries = {} THEN 0
    ELSE (LET e == CHOOSE x \in entries : TRUE
          IN  e[2] + ValueSum(entries \ {e}))

\* every listed version has a known unpackedSize
AllSized(versions) == \A k \in KeysOf(versions) : Registry(k).found /\ Registry(k).sized

TrustVersionSets ==
    {s \in SUBSET {"1.0.0", "2.0.0", "3.0.0"} : s # {} /\ Cardinality(s) <= MaxSetSize}

\* the dependency maps over package-a and package-b, in both orders
TrustMaps ==
    {<<>>}
    \cup {<<[name |-> n, versions |-> s]>> :
             n \in {"package-a", "package-b"}, s \in TrustVersionSets}
    \cup {<<[name |-> n[1], versions |-> s], [name |-> n[2], versions |-> t]>> :
             n \in {<<"package-a", "package-b">>, <<"package-b", "package-a">>},
             s \in TrustVersionSets, t \in TrustVersionSets}

StatusPool == {"trusted-with-provenance", "provenance", "none", "unknown"}

SpecTrust ==
    /\ InitLock({""}, {""}, {""})
    /\ locals = [at |-> 0]
    /\ returned = NotReturned
    /\ heap = <<>>
    /\ comments = <<>>
    /\ metaCache = <<>>
    /\ requests = <<>>
    /\ \/ /\ call \in {[fn |-> "scanForProvenance", messages |-> m, currentDeps |-> c,
                        baseDeps |-> b] :
                          m \in {<<>>, <<"## Earlier">>}, c \in TrustMaps,
                          b \in {t \in TrustMaps : Len(t) < 2 \/ t[1].name = "package-a"}}
          /\ messages = call.messages
       \/ /\ call \in {[fn |-> "getMinTrustLevel", statuses |-> s] :
                          s \in SeqsUpTo(StatusPool, MaxStatuses)}
          /\ messages = <<>>
    /\ [][ScanForProvenance \/ GetMinTrustLevel]_vars

\* the versions of a package the registry has metadata for, and the lowest
\* trust level among them
KnownVersions(name, versions) == {v \in versions : Registry(name \o "@" \o v).found}

LowestLevel(name, versions) ==
    CHOOSE l \in 0..2 :
        /\ \E v \in KnownVersions(name, versions) :
               l = getTrustLevel(getProvenance(Registry(name \o "@" \o v)))
        /\ \A v \in KnownVersions(name, versions) :
               l <= getTrustLevel(getProvenance(Registry(name \o "@" \o v)))

StatusOfLevel(l) ==
    IF l = 2 THEN "trusted-with-provenance" ELSE IF l = 1 THEN "provenance" ELSE "none"

\* metadata for a base and for a current version, and a lower lowest level
Decreased(name, current, base) ==
    /\ KnownVersions(name, current) # {}
    /\ KnownVersions(name, MapGetOrEmpty(base, name)) # {}
    /\ LowestLevel(name, current) < LowestLevel(name, MapGetOrEmpty(base, name))

\* the rows of the packages whose trust decreased, in the order of currentDeps
RECURSIVE DecreasedRows(_, _, _)
DecreasedRows(current, base, k) ==
    IF k > Len(current) THEN <<>>
    ELSE (IF Decreased(current[k].name, current[k].versions, base)
          THEN <<"| " \o current[k].name \o " | "
                 \o StatusOfLevel(LowestLevel(current[k].name,
                                              MapGetOrEmpty(base, current[k].name)))
                 \o " | "
                 \o StatusOfLevel(LowestLevel(current[k].name, current[k].versions))
                 \o " |">>
          ELSE <<>>)
         \o DecreasedRows(current, base, k + 1)

\* C17: scanForProvenance flags a package, with a row of the one message it
\* appends, whenever the registry has metadata for a base and for a current
\* version of it and the lowest trust level among its current versions is below
\* the lowest among its base versions; a package absent from base, or whose
\* current versions are all in base, has no row; with no package flagged,
\* messages is unchanged.
C17_TrustDecreaseIsFlagged ==
    (returned.done /\ call.fn = "scanForProvenance") =>
        /\ DecreasedRows(call.currentDeps, call.baseDeps, 1) = <<>> =>
               messages = call.messages
        /\ DecreasedRows(call.currentDeps, call.baseDeps, 1) # <<>> =>
               messages = Append(call.messages,
                                 ProvenanceHeading
                                 \o Join(DecreasedRows(call.currentDeps, call.baseDeps, 1),
                                         "\n"))
        /\ \A k \in 1..Len(call.currentDeps) :
               (\/ ~MapHas(call.baseDeps, call.currentDeps[k].name)
                \/ call.currentDeps[k].versions
                     \subseteq MapGetOrEmpty(call.baseDeps, call.currentDeps[k].name)) =>
                   \A i \in 1..Len(messages) :
                       i > Len(call.messages) =>
                           ~Includes(messages[i], "| " \o call.currentDeps[k].name \o " |")

\* package-b went from provenance to none and package-a from a trusted publisher
\* to provenance: one message with two rows follows the earlier one
C17_Witness ==
    /\ returned.done
    /\ call.fn = "scanForProvenance"
    /\ call.currentDeps = <<[name |-> "package-b", versions |-> {"2.0.0", "3.0.0"}],
                            [name |-> "package-a", versions |-> {"2.0.0"}]>>
    /\ call.baseDeps = <<[name |-> "package-a", versions |-> {"1.0.0"}],
                         [name |-> "package-b", versions |-> {"1.0.0"}]>>
    /\ messages = <<"## Earlier",
                    ProvenanceHeading
                    \o "| package-b | provenance | none |\n"
                    \o "| package-a | trusted-with-provenance | provenance |">>

\* C18: getMinTrustLevel returns a status of the input that has the lowest
\* trust level among the statuses of the input, together with that level
\* (trusted publisher 2, provenance 1, none 0), and {level: 0, status: 'none'}
\* for an empty input.
C18_MinTrustLevel ==
    (returned.done /\ call.fn = "getMinTrustLevel") =>
        IF call.statuses = <<>>
        THEN returned.value = [level |-> 0, status |-> "none"]
        ELSE /\ \E k \in 1..Len(call.statuses) : returned.value.status = call.statuses[k]
             /\ returned.value.status = "trusted-with-provenance" => returned.value.level = 2
             /\ returned.value.status = "provenance" => returned.value.level = 1
             /\ returned.value.status = "none" => returned.value.level = 0
             /\ \A k \in 1..Len(call.statuses) :
                    /\ call.statuses[k] = "provenance" => returned.value.level <= 1
                    /\ call.statuses[k] = "none" => returned.value.level <= 0
                    /\ returned.value.level <= 2

C18_Witness ==
    /\ returned.done
    /\ call.fn = "getMinTrustLevel"
    /\ call.statuses = <<"trusted-with-provenance", "none", "provenance">>
    /\ returned.value = [level |-> 0, status |-> "none"]

(***************************************************************************)
(* Duplicate dependencies                                                  *)
(***************************************************************************)

MaxThreshold == 2    \* the largest duplicate-threshold of a run

\* what the traversal of a lockfile hands to the visitor
VisitPool ==
    { <<>>,
      <<[name |-> "package-a", version |-> "1.0.0",
         path |-> [defined |-> TRUE, nodes |-> <<"root@0.1.0">>]],
        [name |-> "package-a", version |-> "1.0.0",
         path |-> [defined |-> TRUE, nodes |-> <<"root@0.1.0", "package-b@1.0.0">>]]>>,
      <<[name |-> "package-b", version |-> "2.0.0",
         path |-> [defined |-> TRUE,
                   nodes |-> <<"root@0.1.0", "p1@1.0.0", "p2@1.0.0", "p3@1.0.0",
                               "p4@1.0.0", "package-a@2.0.0">>]],
        [name |-> "package-a", version |-> "2.0.0",
         path |-> [defined |-> TRUE, nodes |-> <<>>]]>>,
      <<[name |-> "package-a", version |-> "1.0.0",
         path |-> [defined |-> FALSE, nodes |-> <<>>]],
        [name |-> "package-c", version |-> "1.0.0",
         path |-> [defined |-> TRUE, nodes |-> <<"root@0.1.0">>]]>> }

SpecDuplicates ==
    /\ InitLock({""}, {""}, {""})
    /\ locals = [at |-> 0]
    /\ returned = NotReturned
    /\ heap = <<>>
    /\ comments = <<>>
    /\ metaCache = <<>>
    /\ requests = <<>>
    /\ call \in {[fn |-> "scanForDuplicates", messages |-> m, threshold |-> t,
                  dependencyMap |-> d, lockfilePath |-> p, lockfile |-> v] :
                    m \in {<<>>, <<"## Earlier">>}, t \in 0..MaxThreshold,
                    d \in TrustMaps,
                    p \in {"package-lock.json", "pnpm-lock.yaml", "yarn.lock", "bun.lock",
                           "Cargo.lock"},
                    v \in VisitPool}
    /\ messages = call.messages
    /\ [][ScanForDuplicates]_vars

\* the packages of the map with strictly more versions than the threshold
OverThreshold(dependencyMap, threshold) ==
    {k \in 1..Len(dependencyMap) : Cardinality(dependencyMap[k].versions) > threshold}

\* the table rows of a message that start with the name of a package
RowsOf(message, name) == Occurrences(message, "\n| " \o name \o " | ", 0)

\* C19: scanForDuplicates appends exactly one message if and only if a package
\* of the dependency map has strictly more versions than the threshold; the
\* message holds one table row for each such package and none for the others;
\* when no package exceeds the threshold, messages is left unchanged.
C19_OneMessageForDuplicates ==
    (returned.done /\ call.fn = "scanForDuplicates") =>
        IF OverThreshold(call.dependencyMap, call.threshold) = {}
        THEN messages = call.messages
        ELSE /\ Len(messages) = Len(call.messages) + 1
             /\ SubSeq(messages, 1, Len(call.messages)) = call.messages
             /\ \A k \in 1..Len(call.dependencyMap) :
                    Cardinality(RowsOf(messages[Len(messages)], call.dependencyMap[k].name))
                      = IF k \in OverThreshold(call.dependencyMap, call.threshold)
                        THEN 1 ELSE 0

\* package-a has two versions and package-b one, the threshold is 1: one
\* message with a row for package-a only
C19_Witness ==
    /\ returned.done
    /\ call.fn = "scanForDuplicates"
    /\ call.threshold = 1
    /\ call.dependencyMap = <<[name |-> "package-b", versions |-> {"2.0.0"}],
                              [name |-> "package-a", versions |-> {"1.0.0", "2.0.0"}]>>
    /\ call.messages = <<"## Earlier">>
    /\ Len(messages) = 2
    /\ Includes(messages[2], "(found: 1, threshold: 1)")
    /\ Includes(messages[2], "\n| package-a | <details><summary>2 versions</summary>")
    /\ ~Includes(messages[2], "| package-b |")

(***************************************************************************)
(* The base ref                                                            *)
(***************************************************************************)

MaxSegments == 2    \* parts of a ref name, joined by '/'

\* the names of refs: one to MaxSegments parts
RefNames ==
    {Join(q, "/") : q \in SeqsUpTo({"main", "develop", "origin", "v1"}, MaxSegments) \ {<<>>}}

SpecBaseRef ==
    /\ InitLock({""}, {""}, {""})
    /\ locals = [at |-> 0]
    /\ returned = NotReturned
    /\ heap = <<>>
    /\ comments = <<>>
    /\ metaCache = <<>>
    /\ requests = <<>>
    /\ messages = <<>>
    /\ call \in {[fn |-> "getBaseRef", input |-> i, pull_request |-> p] :
                    i \in {""} \cup RefNames,
                    p \in {[defined |-> FALSE, base |-> [ref |-> ""]]}
                          \cup {[defined |-> TRUE, base |-> [ref |-> r]] : r \in RefNames}}
    /\ [][GetBaseRef]_vars

\* C20: getBaseRef returns the base-ref input when it is set, as it is when it
\* contains a '/' and after "origin/" otherwise; else "origin/" and the base ref
\* of the pull request when the payload has one; else "origin/main".
C20_BaseRefPriority ==
    returned.done =>
        /\ (call.input # "" /\ \E i \in 0..(Len(call.input) - 1) : CharAt(call.input, i) = "/") =>
               returned.value = call.input
        /\ (call.input # "" /\ \A i \in 0..(Len(call.input) - 1) : CharAt(call.input, i) # "/") =>
               returned.value = "origin/" \o call.input
        /\ (call.input = "" /\ call.pull_request.defined) =>
               returned.value = "origin/" \o call.pull_request.base.ref
        /\ (call.input = "" /\ ~call.pull_request.defined) =>
               returned.value = "origin/main"

\* the input wins over the pull request, and gets its prefix
C20_Witness ==
    /\ returned.done
    /\ call.input = "develop"
    /\ call.pull_request = [defined |-> TRUE, base |-> [ref |-> "v1/main"]]
    /\ returned.value = "origin/develop"

(***************************************************************************)
(* One run of the action                                                   *)
(***************************************************************************)

\* the packs a glob pattern matches
PackLists ==
    { <<>>,
      <<[packageName |-> "pkg-a", size |-> 100]>>,
      <<[packageName |-> "pkg-a", size |-> 200]>>,
      <<[packageName |-> "pkg-b", size |-> 60], [packageName |-> "pkg-a", size |-> 200]>> }

\* the comments a pull request holds before a run: none, one of a person, one of
\* the action posted as github-actions[bot], one of the action posted as a user
CommentLists ==
    { <<>>,
      <<[id |-> 1, login |-> "octocat", body |-> "LGTM"]>>,
      <<[id |-> 1, login |-> "github-actions[bot]",
         body |-> COMMENT_TAG \o "\n## Earlier"]>>,
      <<[id |-> 1, login |-> "octocat", body |-> COMMENT_TAG \o "\n## Earlier"]>>,
      <<[id |-> 1, login |-> "octocat", body |-> "LGTM"],
        [id |-> 2, login |-> "github-actions[bot]",
         body |-> COMMENT_TAG \o "\n## Earlier"]>> }

\* the inputs of one run and what its checks append
RunInputs ==
    [checks : {<<>>, <<"## Dependency Count">>},
     basePackages : {"", "base/*.tgz"},
     sourcePackages : {"", "source/*.tgz"},
     detectReplacements : BOOLEAN,
     packageJsons : BOOLEAN,
     replacements : {<<>>, <<"## Replacements">>}]

SpecRunOnce ==
    /\ InitLock({""}, {""}, {""})
    /\ returned = NotReturned
    /\ heap = <<>>
    /\ metaCache = <<>>
    /\ requests = <<>>
    /\ locals = <<[pc |-> "checks", existingCommentId |-> 0, failed |-> FALSE]>>
    /\ messages = << <<>> >>
    /\ call \in {[fn |-> "run", login |-> "github-actions[bot]", overlap |-> FALSE,
                  packSizeThreshold |-> 50, comments |-> c, runs |-> <<i>>,
                  files |-> ("" :> <<>> @@ "base/*.tgz" :> b @@ "source/*.tgz" :> s)] :
                    c \in CommentLists, i \in RunInputs, b \in PackLists, s \in PackLists}
    /\ comments = call.comments
    /\ [][NextRuns]_vars

\* the requests of an operation that run r has sent
RequestsOf(r, ops) == {k \in 1..Len(requests) : requests[k].run = r /\ requests[k].op \in ops}

\* C21: the pack analysis runs only when both base-packages and source-packages
\* are set: a run with either unset reads no pack and has no 'Package Size
\* Increase' message, at any time.
C21_PacksOnlyWithBothPatterns ==
    \A r \in 1..Len(call.runs) :
        (call.runs[r].basePackages = "" \/ call.runs[r].sourcePackages = "") =>
            /\ RequestsOf(r, {"getPacksFromPattern"}) = {}
            /\ \A k \in 1..Len(messages[r]) :
                   ~Includes(messages[r][k], "Package Size Increase")

\* both patterns are set and pkg-a grew from 100 to 200 bytes: both patterns
\* were read and the message is there
C21_Witness ==
    /\ call.runs[1].basePackages = "base/*.tgz"
    /\ call.runs[1].sourcePackages = "source/*.tgz"
    /\ call.runs[1].checks = <<>>
    /\ Cardinality(RequestsOf(1, {"getPacksFromPattern"})) = 2
    /\ Len(messages[1]) = 1
    /\ Includes(messages[1][1], "## Package Size Increase")
    /\ Includes(messages[1][1], "| pkg-a | 100 B | 200 B | 100 B |")

\* C24: a run whose checks produced no message sends no request about comments
\* and leaves the comments as they were; a run with a message that no earlier
\* step ended calls exactly one of createComment and updateComment, and
\* updateComment if and only if the listing held a comment carrying the tag.
C24_OneWriteAndUpdateIffTagged ==
    (locals[1].pc = "done" /\ ~locals[1].failed) =>
        IF Len(messages[1]) = 0
        THEN /\ RequestsOf(1, {"listComments", "createComment", "updateComment"}) = {}
             /\ comments = call.comments
        ELSE /\ Cardinality(RequestsOf(1, {"createComment", "updateComment"})) = 1
             /\ RequestsOf(1, {"updateComment"}) # {}
                  <=> \E k \in 1..Len(call.comments) :
                          Includes(call.comments[k].body, COMMENT_TAG)

(***************************************************************************)
(* Several runs on one pull request                                        *)
(***************************************************************************)

MaxRuns == 2    \* runs of the action on the pull request

\* runs that differ in what their checks found; no pack analysis, no replacements
PlainRuns ==
    {[checks |-> c, basePackages |-> "", sourcePackages |-> "",
      detectReplacements |-> FALSE, packageJsons |-> TRUE, replacements |-> <<>>] :
         c \in {<<>>, <<"## Dependency Count">>, <<"## Duplicate Dependencies">>}}

SpecRuns ==
    /\ InitLock({""}, {""}, {""})
    /\ returned = NotReturned
    /\ heap = <<>>
    /\ metaCache = <<>>
    /\ requests = <<>>
    /\ call \in {[fn |-> "run", login |-> l, overlap |-> o, packSizeThreshold |-> 50,
                  comments |-> c, runs |-> i, files |-> ("" :> <<>>)] :
                    l \in {"github-actions[bot]", "octocat"}, o \in BOOLEAN,
                    c \in {<<>>, <<[id |-> 1, login |-> "octocat", body |-> "LGTM"]>>},
                    i \in SeqsUpTo(PlainRuns, MaxRuns) \ {<<>>}}
    /\ locals = [r \in 1..Len(call.runs) |->
                    [pc |-> "checks", existingCommentId |-> 0, failed |-> FALSE]]
    /\ messages = [r \in 1..Len(call.runs) |-> <<>>]
    /\ comments = call.comments
    /\ [][NextRuns]_vars

\* the comments of the pull request that carry the tag of the action
Tagged == {k \in 1..Len(comments) : Includes(comments[k].body, COMMENT_TAG)}

\* C26: across runs that do not overlap, whatever identity the token posts as,
\* the pull request never holds more than one comment carrying the tag.
C26_OneCommentAcrossRuns == ~call.overlap => Cardinality(Tagged) <= 1

\* C29: when runs that post as github-actions[bot] interleave, each listing the
\* comments before another has created one, the pull request still ends with at
\* most one comment carrying the tag.
C29_OneCommentWhenInterleaved ==
    (/\ call.overlap
     /\ call.login = "github-actions[bot]"
     /\ \A r \in 1..Len(call.runs) : locals[r].pc = "done"
     /\ \A i, j \in 1..Len(requests) :
            (requests[i].op = "listComments" /\ requests[j].op = "createComment") => i < j) =>
        Cardinality(Tagged) <= 1


(***************************************************************************)
(* yarn.lock (classic) runs over headers that wrap across lines            *)
(***************************************************************************)

WrappedBlockPool ==
    { "x@^1.0.0,\ny@^2.0.0:\n  version \"2.0.0\"\n\n",
      "\"a@^1.0.0\",\n\"b@^1.0.0\",\n\"@s/c@^1.0.0\":\n  version \"1.0.0\"\n\n",
      "foo@^1.0.0:\n  version \"1.0.0\"\n\n",
      "\"a@^1.0.0\",\n\"a@^2.0.0\":\n  version \"2.0.0\"\n  resolved \"u\"\n\n" }

SpecYarnWrapped ==
    /\ InitWith({"yarn.lock"},
                {YarnV1Preamble, YarnV1Preamble \o "foo@^1.0.0:\n  version \"1.0.0\"\n\n"},
                {YarnV1Preamble \o t : t \in TextsUpTo(WrappedBlockPool, MaxBlocks)})
    /\ [][NextParse]_vars

\* a top-level line: not empty, not indented
IsTopLevel(line) == line # "" /\ ~IsSpace(CharAt(line, 0))

\* lines i..j are one wrapped header: it starts after a blank line, each line is
\* top-level, all but the last end in ',', the last ends in ':', j > i
IsWrappedHeader(lines, i, j) ==
    /\ i < j
    /\ (i = 1 \/ lines[i - 1] = "")
    /\ \A k \in i..j : IsTopLevel(lines[k])
    /\ \A k \in i..(j - 1) : EndsWith(lines[k], ",")
    /\ EndsWith(lines[j], ":")

(***************************************************************************)
\* C22: in a yarn-classic text, a header that wraps across contiguous top-level
\* lines (each but the last ending in ',', the last in ':'), followed by the body
\* line `  version "<v>"`, contributes (name, v) for every specifier of every one
\* of its lines, name being the specifier's text before its last '@'.
C22_EverySpecifierOfWrappedHeader ==
    ("parseCurrent" \in pc /\ currentDeps.by = "yarn-classic") =>
        LET lines == SplitLines(currentPackageLock)
        IN  \A i \in 1..Len(lines) : \A j \in i..(Len(lines) - 1) :
                (IsWrappedHeader(lines, i, j) /\ QuotedVersionOf(lines[j + 1]) # "") =>
                    \A k \in i..j :
                        \A spec \in HeaderSpecifiers(DropTrailing(lines[k], ",")) :
                            <<BeforeLastAt(spec), QuotedVersionOf(lines[j + 1])>>
                                \in Pairs(currentDeps.map)

(***************************************************************************)
(* yarn.lock runs that locate a pair in texts of several blocks            *)
(***************************************************************************)

YarnV1LocatePool ==
    { "foo@^1.0.0:\n  version \"1.0.0\"\n  resolved \"u\"\n\n",
      "foo@^2.0.0:\n  version \"2.0.0\"\n\n",
      "\"@s/bar@^2.0.0\":\n  version \"2.0.0\"\n  dependencies:\n    foo \"^1.0.0\"\n\n",
      "foo@^9.0.0:\n  resolved \"u\"\n\n" }

YarnBerryLocatePool ==
    { "\"foo@npm:^1.0.0\":\n  version: 1.0.0\n  resolution: \"foo@npm:1.0.0\"\n\n",
      "\"@s/bar@npm:^2.0.0\":\n  version: \"2.0.0\"\n\n",
      "\"foo@npm:^9.0.0\":\n  resolution: \"foo@npm:9.0.0\"\n\n" }

SpecYarnLocate ==
    /\ InitWith({"yarn.lock"}, {YarnV1Preamble},
                {YarnV1Preamble \o t : t \in TextsUpTo(YarnV1LocatePool, MaxBlocks)}
                \cup {YarnBerryPreamble \o t : t \in TextsUpTo(YarnBerryLocatePool, MaxBlocks)})
    /\ [][NextRun]_vars

\* a top-level line that ends in ':'
IsTopLevelHeader(line) == IsTopLevel(line) /\ EndsWith(TrimEnd(line), ":")

\* the value of a body line `  version "<v>"` or `  version: <v>`, quoted or
\* bare; "" for any other line
VersionValueOf(line) ==
    IF StartsWith(line, "  version: ")
    THEN StripQuoteChars(SliceFrom(line, 11), "\"")
    ELSE QuotedVersionOf(line)

(***************************************************************************)
\* C23: a line number returned by the yarn-classic or the yarn-berry locator is
\* the 1-based number of an indented version line whose value is the requested
\* version, and some top-level header line containing `<name>@` stands above it
\* with no top-level header between the two: the scan of a block's body never
\* enters the following block.
C23_LocatedInOwnBlock ==
    ("locate" \in pc /\ located.found /\ located.by \in {"yarn-classic", "yarn-berry"}) =>
        LET lines == SplitLines(currentPackageLock)
        IN  /\ located.line \in 1..Len(lines)
            /\ StartsWith(lines[located.line], " ")
            /\ VersionValueOf(lines[located.line]) = query[2]
            /\ \E h \in 1..(located.line - 1) :
                  /\ IsTopLevelHeader(lines[h])
                  /\ Includes(lines[h], query[1] \o "@")
                  /\ \A k \in (h + 1)..(located.line - 1) : ~IsTopLevelHeader(lines[k])

\* the pair stands in the second block, behind a block of the same name at
\* another version: the scan of the first block stopped at the second header
C23_Witness ==
    /\ "locate" \in pc
    /\ currentPackageLock
         = YarnV1Preamble \o "foo@^1.0.0:\n  version \"1.0.0\"\n  resolved \"u\"\n\n"
                          \o "foo@^2.0.0:\n  version \"2.0.0\"\n\n"
    /\ query = <<"foo", "2.0.0">>
    /\ located = [by |-> "yarn-classic", found |-> TRUE, line |-> 9]

(***************************************************************************)
(* Dependency count                                                        *)
(***************************************************************************)

BaseMaps ==
    { <<>>,
      <<[name |-> "package-a", versions |-> {"1.0.0"}]>>,
      <<[name |-> "package-a", versions |-> {"1.0.0", "2.0.0"}]>>,
      <<[name |-> "package-a", versions |-> {"1.0.0"}],
        [name |-> "package-b", versions |-> {"1.0.0", "2.0.0"}]>> }

SpecDependencyCount ==
    /\ InitLock({""}, {""}, {""})
    /\ locals = [at |-> 0]
    /\ returned = NotReturned
    /\ heap = <<>>
    /\ comments = <<>>
    /\ metaCache = <<>>
    /\ requests = <<>>
    /\ call \in {[fn |-> "scanForDependencyCount", messages |-> m, threshold |-> t,
                  currentDeps |-> c, baseDeps |-> b] :
                    m \in {<<>>, <<"## Earlier">>}, t \in 0..MaxThreshold,
                    c \in TrustMaps, b \in BaseMaps}
    /\ messages = call.messages
    /\ [][ScanForDependencyCount]_vars

\* C25: scanForDependencyCount appends its warning only when the number of
\* (name, version) pairs grows from base to current by more than the threshold,
\* as the warning says ("which exceeds the threshold of T"); otherwise messages
\* is left unchanged.
C25_WarningOnlyAboveThreshold ==
    (returned.done /\ call.fn = "scanForDependencyCount") =>
        IF Cardinality(Pairs(call.currentDeps)) - Cardinality(Pairs(call.baseDeps))
             > call.threshold
        THEN /\ Len(messages) = Len(call.messages) + 1
             /\ SubSeq(messages, 1, Len(call.messages)) = call.messages
        ELSE messages = call.messages

(***************************************************************************)
(* Interleaved calls of fetchPackageMetadata                               *)
(***************************************************************************)

MaxCalls == 3    \* calls of fetchPackageMetadata in a run

CacheKeys == {"package-a@1.0.0", "package-b@1.0.0"}

SpecFetch ==
    /\ InitLock({""}, {""}, {""})
    /\ returned = NotReturned
    /\ messages = <<>>
    /\ heap = <<>>
    /\ comments = <<>>
    /\ requests = <<>>
    /\ metaCache = [k \in CacheKeys |-> NotCached]
    /\ call \in {[fn |-> "fetchPackageMetadata", keys |-> ks] :
                    ks \in [1..MaxCalls -> CacheKeys]}
    /\ locals = [c \in 1..MaxCalls |->
                   [pc |-> "idle", promise |-> 0, own |-> FALSE, result |-> Null]]
    /\ [][NextFetch]_vars

\* the requests for a key that have returned metadata
Succeeded(key) ==
    {q \in 1..Len(requests) :
        requests[q].key = key /\ ~requests[q].pending /\ requests[q].result.ok}

\* the requests for a key that are in flight
InFlight(key) == {q \in 1..Len(requests) : requests[q].key = key /\ requests[q].pending}

\* no two requests for one key are pending together, and a call that is done
\* after awaiting a promise returned what the request of that promise returned
NoTwoInFlight ==
    /\ \A key \in CacheKeys : Cardinality(InFlight(key)) <= 1
    /\ \A c \in 1..Len(locals) :
          (locals[c].pc = "done" /\ locals[c].promise # 0)
              => /\ requests[locals[c].promise].key = call.keys[c]
                 /\ locals[c].result = requests[locals[c].promise].result

\* a call that starts while a request for its key is pending sends no request
\* and awaits the promise of that request
PendingIsShared ==
    \A c \in 1..Len(locals) : \A q \in InFlight(call.keys[c]) :
        (locals[c].pc = "idle" /\ locals'[c].pc # "idle") =>
            /\ requests' = requests
            /\ locals'[c].pc = "shared" /\ locals'[c].promise = q

\* a call that starts once a request for its key has returned metadata sends no
\* request, and returns that metadata or awaits the promise that holds it
LaterCallsReuse ==
    \A c \in 1..Len(locals) : \A q \in Succeeded(call.keys[c]) :
        (locals[c].pc = "idle" /\ locals'[c].pc # "idle") =>
            /\ requests' = requests
            /\ \/ locals'[c].pc = "done" /\ locals'[c].result = requests[q].result
               \/ locals'[c].pc = "shared" /\ locals'[c].promise = q

\* C27: under any interleaving of calls of fetchPackageMetadata, no two requests
\* for the same name@version are in flight at the same time, a call made while
\* one is pending shares its result, and once a request for a key has returned
\* metadata every later call for that key returns that metadata without sending
\* a new request.
C27_OneRequestInFlightAndReuse ==
    []NoTwoInFlight /\ [][PendingIsShared /\ LaterCallsReuse]_vars

\* three calls for one key and one request: the second call shared the promise
\* of the first, the third returned the cached metadata
C27_Witness ==
    /\ call.fn = "fetchPackageMetadata"
    /\ \A c \in 1..3 : call.keys[c] = "package-a@1.0.0"
    /\ Len(requests) = 1
    /\ requests[1].result.ok
    /\ \A c \in 1..3 : locals[c].pc = "done" /\ locals[c].result = requests[1].result
    /\ locals[1].own
    /\ locals[2].promise = 1 /\ ~locals[2].own
    /\ locals[3].promise = 0

(***************************************************************************)
(* Runs that locate the pairs the parser returned                          *)
(***************************************************************************)

\* findLockfileLine for a pair of the map parseLockfile returned for the text
LocateParsed ==
    /\ "parseCurrent" \in pc
    /\ \E pair \in Pairs(currentDeps.map) : Locate(pair[1], pair[2])

NextLocateParsed == ParseCurrent \/ ParseBase \/ Diff \/ LocateParsed

SpecLocateParsed ==
    /\ InitWith(LockfilePaths, RunBaseTexts, RunTexts)
    /\ [][NextLocateParsed]_vars

\* C28: parse and locate agree: for every dialect and every text, each (name,
\* version) pair of the map parseLockfile returns is located by findLockfileLine
\* on the same filename and text, at a line between 1 and the number of lines.
C28_ParsedPairIsLocated ==
    ({"parseCurrent", "locate"} \subseteq pc /\ query \in Pairs(currentDeps.map)) =>
        /\ located.found
        /\ located.line \in 1..Len(SplitLines(currentPackageLock))

(***************************************************************************)
(* Scans of yarn.lock texts, iteration by iteration                        *)
(***************************************************************************)

YarnV1ScanTexts ==
    YarnV1Texts
    \cup {YarnV1Preamble \o t \o "hdr@^1.0.0:" : t \in TextsUpTo(YarnV1BlockPool, 1)}

YarnBerryScanTexts ==
    {YarnBerryPreamble \o t :
        t \in TextsUpTo(YarnBerryBlockPool \cup {"\"hdr@npm:^1.0.0\":\n"}, MaxBlocks)}
    \cup {YarnBerryPreamble \o t \o "\"hdr@npm:^1.0.0\":" :
             t \in TextsUpTo(YarnBerryBlockPool, 1)}

SpecYarnScan ==
    /\ InitLock({""}, {""}, {""})
    /\ returned = NotReturned
    /\ messages = <<>>
    /\ comments = <<>>
    /\ metaCache = <<>>
    /\ requests = <<>>
    /\ heap = EmptyMap
    /\ locals = [at |-> 0]
    /\ call \in {[fn |-> "parseYarnV1Lock", content |-> t] : t \in YarnV1ScanTexts}
                \cup {[fn |-> "parseYarnBerryLock", content |-> t] : t \in YarnBerryScanTexts}
    /\ [][ScanStep]_vars

\* the index after the iteration of the outer loop that starts at locals.at
IndexAfterIteration ==
    IF call.fn = "parseYarnV1Lock"
    THEN YarnV1Iteration(SplitLines(call.content), locals.at, heap).i
    ELSE YarnBerryIteration(SplitLines(call.content), locals.at, heap).i

\* C30: parseYarnV1Lock and parseYarnBerryLock terminate on every finite text:
\* every iteration of the outer scan loop moves the line index forward by at
\* least one and never past the number of lines, also for a block without a
\* version line, a header on the last line and a header directly followed by
\* another header; when the loop has ended, result is what the parser returns.
C30_EveryIterationAdvances ==
    LET lines == SplitLines(call.content)
    IN  /\ locals.at <= Len(lines)
        /\ locals.at < Len(lines) =>
              (IndexAfterIteration > locals.at /\ IndexAfterIteration <= Len(lines))
        /\ locals.at = Len(lines) =>
              Returned(heap) = IF call.fn = "parseYarnV1Lock"
                               THEN parseYarnV1Lock(call.content)
                               ELSE parseYarnBerryLock(call.content)

\* a header directly followed by the header of a block without a version line,
\* then a header on the last line: the scan has passed all three and has ended
C30_Witness ==
    /\ call = [fn |-> "parseYarnV1Lock",
               content |-> YarnV1Preamble \o "hdr@^1.0.0:\n" \o "hdr@^1.0.0:"]
    /\ locals.at = Len(SplitLines(call.content))
    /\ heap = EmptyMap
====
